---- MODULE Spec2Model ----
(***************************************************************************)
(* Model of the NVRHI validation layer, src/validation/validation-device   *)
(* .cpp: DeviceWrapper, a decorator in front of a wrapped IDevice.          *)
(*                                                                         *)
(* One decorator call is one action.  The state records the call that was  *)
(* made last: the operation, its arguments, the value returned, the        *)
(* messages handed to the message callback (in order) and the calls made   *)
(* on the wrapped device (in order, with their arguments and results).     *)
(* The wrapped device and the message callback are external: what the      *)
(* wrapped device answers is drawn from small sets.                        *)
(* Debug names only feed message texts and are left out of descriptors.    *)
(***************************************************************************)
EXTENDS Integers, Sequences, FiniteSets, TLC

VARIABLES api, pc, op, args, ret, msgs, devLog, deref, tableIdx, depth

vars == <<api, pc, op, args, ret, msgs, devLog, deref, tableIdx, depth>>

(***************************************************************************)
(* Values                                                                  *)
(***************************************************************************)
\* Handles are tuples <<kind, payload>>; the null handle is the tuple of length one.
NULL == <<"nullptr">>

\* the value a call that has not returned has produced
NoValue == "none"

GraphicsAPIs == {"D3D11", "D3D12", "VULKAN"}

\* a non-null handle produced by the wrapped device
BackendHandle == <<"handle", "backend">>

\* what a create call on the wrapped device may return
BackendHandles == {NULL, BackendHandle}

\* a message handed to the message callback: <<severity, text>>
Error(text) == <<"Error", text>>

Warning(text) == <<"Warning", text>>

\* a call made on the wrapped device: <<method, argument, result>>
DevCall(method, arg, result) == <<method, arg, result>>

\* the calls of `method` among the calls made on the wrapped device
Forwards(log, method) == {i \in 1..Len(log) : log[i][1] = method}

\* the element of a set of one element.  The({F(v) : v \in {x}}) is F(x) with x
\* evaluated once, however often F uses it, as a statement uses a local variable
The(S) == CHOOSE y \in S : TRUE

\* the outcome of a decorator call: where it ended ("done" at a return statement,
\* "crashed" when the process died in it), the value returned, the messages, the
\* calls on the wrapped device, whether a null pointer was accessed, and the indices
\* used on the table registerSpaceToLayoutIdx
Outcome(end, value, messages, log, nullAccess, indices) ==
    [pc |-> end, ret |-> value, msgs |-> messages, devLog |-> log,
     deref |-> nullAccess, tableIdx |-> indices]

\* the outcome of a decorator call that ran to its return statement without touching
\* a null pointer or the table
Returned(value, messages, log) == Outcome("done", value, messages, log, FALSE, {})

(***************************************************************************)
(* Init: a DeviceWrapper constructed around a device of some graphics API, *)
(* no call made yet.                                                       *)
(***************************************************************************)
Init ==
    /\ api \in GraphicsAPIs
    /\ pc = "idle"
    /\ op = NoValue
    /\ args = NoValue
    /\ ret = NoValue
    /\ msgs = <<>>
    /\ devLog = <<>>
    /\ deref = FALSE
    /\ tableIdx = {}
    /\ depth = 0

\* the state change of a whole decorator call `name(a)` with outcome `r`
Call(name, a, r) ==
    /\ pc' = r.pc
    /\ op' = name
    /\ args' = a
    /\ ret' = r.ret
    /\ msgs' = r.msgs
    /\ devLog' = r.devLog
    /\ deref' = r.deref
    /\ tableIdx' = r.tableIdx
    /\ depth' = 0
    /\ UNCHANGED api

\* the caller takes the returned value and is free to make the next call
Return ==
    /\ pc = "done"
    /\ pc' = "idle"
    /\ op' = NoValue
    /\ args' = NoValue
    /\ ret' = NoValue
    /\ msgs' = <<>>
    /\ devLog' = <<>>
    /\ deref' = FALSE
    /\ tableIdx' = {}
    /\ depth' = 0
    /\ UNCHANGED api

(***************************************************************************)
(* createTexture                                                           *)
(***************************************************************************)
\* bound on the height and depth of a texture descriptor
MaxExtent == 2

KnownDimensions ==
    {"Texture1D", "Texture1DArray", "Texture2D", "Texture2DArray", "TextureCube",
     "TextureCubeArray", "Texture2DMS", "Texture2DMSArray", "Texture3D"}

TextureDimensions == KnownDimensions \cup {"Unknown"}

ArraySizes == {0, 1, 6, 7, 12}

SampleCounts == {1, 2, 3, 4, 8}

ResourceStates == {"Unknown", "Common"}

TextureDescs ==
    [dimension : TextureDimensions,
     width : {0, MaxExtent},
     height : 0..MaxExtent,
     depth : 0..MaxExtent,
     arraySize : ArraySizes,
     mipLevels : {0, MaxExtent},
     sampleCount : SampleCounts,
     isUAV : BOOLEAN,
     isVirtual : BOOLEAN,
     keepInitialState : BOOLEAN,
     initialState : ResourceStates]

ZeroExtent_NoMips(d) ==
    d.width = 0 \/ d.height = 0 \/ d.depth = 0 \/ d.arraySize = 0

ZeroExtent(d) ==
    d.width = 0 \/ d.height = 0 \/ d.depth = 0 \/ d.arraySize = 0 \/ d.mipLevels = 0

HeightErrors(d) ==
    IF d.dimension \in {"Texture1D", "Texture1DArray"} /\ d.height # 1
    THEN <<Error("height must be equal to 1")>>
    ELSE <<>>

DepthErrors(d) ==
    IF d.dimension \in (KnownDimensions \ {"Texture3D"}) /\ d.depth # 1
    THEN <<Error("depth must be equal to 1")>>
    ELSE <<>>

ArraySizeErrors_CubeArrayIs6(d) ==
    CASE d.dimension \in {"Texture1D", "Texture2D", "Texture2DMS", "Texture3D"} ->
            IF d.arraySize # 1 THEN <<Error("arraySize must be equal to 1")>> ELSE <<>>
      [] d.dimension \in {"TextureCube", "TextureCubeArray"} ->
            IF d.arraySize # 6 THEN <<Error("arraySize must be equal to 6")>> ELSE <<>>
      [] OTHER -> <<>>

ArraySizeErrors(d) ==
    CASE d.dimension \in {"Texture1D", "Texture2D", "Texture2DMS", "Texture3D"} ->
            IF d.arraySize # 1 THEN <<Error("arraySize must be equal to 1")>> ELSE <<>>
      [] d.dimension = "TextureCube" ->
            IF d.arraySize # 6 THEN <<Error("arraySize must be equal to 6")>> ELSE <<>>
      [] d.dimension = "TextureCubeArray" ->
            IF (d.arraySize % 6) # 0
            THEN <<Error("arraySize must be a multiple of 6")>>
            ELSE <<>>
      [] OTHER -> <<>>

SampleCountErrors_Any(d) ==
    CASE d.dimension \in {"Texture1D", "Texture1DArray", "Texture2D", "Texture2DArray",
                          "TextureCube", "TextureCubeArray", "Texture3D"} ->
            IF d.sampleCount # 1 THEN <<Error("sampleCount must be equal to 1")>> ELSE <<>>
      [] d.dimension \in {"Texture2DMS", "Texture2DMSArray"} ->
            (IF d.sampleCount = 1
             THEN <<Error("sampleCount must be equal to 2, 4 or 8")>>
             ELSE <<>>)
            \o (IF d.isUAV
                THEN <<Error("multi-sampled textures cannot have UAVs")>>
                ELSE <<>>)
      [] OTHER -> <<>>

SampleCountErrors(d) ==
    CASE d.dimension \in {"Texture1D", "Texture1DArray", "Texture2D", "Texture2DArray",
                          "TextureCube", "TextureCubeArray", "Texture3D"} ->
            IF d.sampleCount # 1 THEN <<Error("sampleCount must be equal to 1")>> ELSE <<>>
      [] d.dimension \in {"Texture2DMS", "Texture2DMSArray"} ->
            (IF d.sampleCount # 2 /\ d.sampleCount # 4 /\ d.sampleCount # 8
             THEN <<Error("sampleCount must be equal to 2, 4 or 8")>>
             ELSE <<>>)
            \o (IF d.isUAV
                THEN <<Error("multi-sampled textures cannot have UAVs")>>
                ELSE <<>>)
      [] OTHER -> <<>>

\* the call of queryFeatureSupport(VirtualResources), made only for a virtual resource
VirtualQuery(d, supported) ==
    IF d.isVirtual
    THEN <<DevCall("queryFeatureSupport", "VirtualResources", supported)>>
    ELSE <<>>

VirtualErrors(d, supported) ==
    IF d.isVirtual /\ ~supported
    THEN <<Error("The device does not support virtual resources")>>
    ELSE <<>>

KeepInitialStateErrors(d) ==
    IF d.keepInitialState /\ d.initialState = "Unknown"
    THEN <<Error("initialState = Unknown is incompatible with keepInitialState = true")>>
    ELSE <<>>

\* createTexture(d), where the wrapped device answers `supported` to the feature
\* query and `result` to createTexture
createTexture(d, supported, result) ==
    IF d.dimension \notin KnownDimensions
    THEN Returned(NULL, <<Error("Unknown texture dimension")>>, <<>>)
    ELSE IF ZeroExtent(d)
    THEN Returned(NULL, <<Error("extents must not be zero")>>, <<>>)
    ELSE LET errors == HeightErrors(d) \o DepthErrors(d) \o ArraySizeErrors(d)
                       \o SampleCountErrors(d) \o VirtualErrors(d, supported)
                       \o KeepInitialStateErrors(d)
             anyErrors == errors # <<>>
         IN  IF anyErrors
             THEN Returned(NULL, errors, VirtualQuery(d, supported))
             ELSE Returned(result, errors,
                           VirtualQuery(d, supported)
                           \o <<DevCall("createTexture", d, result)>>)

CreateTexture ==
    /\ pc = "idle"
    /\ \E d \in TextureDescs, supported \in BOOLEAN, result \in BackendHandles :
          Call("createTexture", d, createTexture(d, supported, result))

NextTexture == CreateTexture \/ Return

SpecTexture == Init /\ [][NextTexture]_vars

(***************************************************************************)
(* createBuffer                                                            *)
(***************************************************************************)
\* bound on maxVersions of a buffer descriptor
MaxVersions == 1

CpuAccessModes == {"None", "Read", "Write"}

BufferDescs ==
    [isVolatile : BOOLEAN,
     isConstantBuffer : BOOLEAN,
     maxVersions : 0..MaxVersions,
     isVertexBuffer : BOOLEAN,
     isIndexBuffer : BOOLEAN,
     isDrawIndirectArgs : BOOLEAN,
     canHaveUAVs : BOOLEAN,
     isAccelStructBuildInput : BOOLEAN,
     isAccelStructStorage : BOOLEAN,
     isShaderBindingTable : BOOLEAN,
     isVirtual : BOOLEAN,
     cpuAccess : CpuAccessModes,
     keepInitialState : BOOLEAN,
     initialState : ResourceStates]

UnsupportedVolatileUsage_NoVertex(d) ==
    \/ d.isIndexBuffer
    \/ d.isDrawIndirectArgs
    \/ d.canHaveUAVs
    \/ d.isAccelStructBuildInput
    \/ d.isAccelStructStorage
    \/ d.isShaderBindingTable
    \/ d.isVirtual

UnsupportedVolatileUsage(d) ==
    \/ d.isVertexBuffer
    \/ d.isIndexBuffer
    \/ d.isDrawIndirectArgs
    \/ d.canHaveUAVs
    \/ d.isAccelStructBuildInput
    \/ d.isAccelStructStorage
    \/ d.isShaderBindingTable
    \/ d.isVirtual

\* createBuffer(d), where the wrapped device answers `supported` to the feature
\* query and `result` to createBuffer
createBuffer(d, supported, result) ==
    IF d.isVolatile /\ ~d.isConstantBuffer
    THEN Returned(NULL, <<Error("volatile but not a constant buffer")>>, <<>>)
    ELSE IF d.isVolatile /\ d.maxVersions = 0
    THEN Returned(NULL, <<Error("volatile constant buffer has maxVersions = 0")>>, <<>>)
    ELSE IF d.isVolatile /\ UnsupportedVolatileUsage(d)
    THEN Returned(NULL, <<Error("volatile but has unsupported usage flags")>>, <<>>)
    ELSE IF d.isVolatile /\ d.cpuAccess # "None"
    THEN Returned(NULL, <<Error("volatile constant buffer must have cpuAccess None")>>, <<>>)
    ELSE IF d.isVirtual /\ ~supported
    THEN Returned(NULL, VirtualErrors(d, supported), VirtualQuery(d, supported))
    ELSE IF d.keepInitialState /\ d.initialState = "Unknown"
    THEN Returned(NULL, KeepInitialStateErrors(d), VirtualQuery(d, supported))
    ELSE Returned(result, <<>>,
                  VirtualQuery(d, supported) \o <<DevCall("createBuffer", d, result)>>)

CreateBuffer ==
    /\ pc = "idle"
    /\ \E d \in BufferDescs, supported \in BOOLEAN, result \in BackendHandles :
          Call("createBuffer", d, createBuffer(d, supported, result))

NextBuffer == CreateBuffer \/ Return

SpecBuffer == Init /\ [][NextBuffer]_vars

(***************************************************************************)
(* createAccelStruct                                                       *)
(***************************************************************************)
\* bound on topLevelMaxInstances of an acceleration-structure descriptor
MaxInstances == 2

AccelStructBuildFlags == {"AllowUpdate", "AllowCompaction", "PreferFastTrace"}

AccelStructDescs ==
    [isTopLevel : BOOLEAN,
     buildFlags : SUBSET AccelStructBuildFlags,
     topLevelMaxInstances : 0..MaxInstances,
     isVirtual : BOOLEAN]

\* the acceleration structure the wrapped device creates from descriptor d
BackendAccelStruct(d) == <<"AccelStruct", d>>

\* new AccelStructWrapper(as) with the fields createAccelStruct sets
AccelStructWrapper(as, d) ==
    <<"AccelStructWrapper",
      [underlying |-> as,
       isTopLevel |-> d.isTopLevel,
       allowUpdate |-> "AllowUpdate" \in d.buildFlags,
       allowCompaction |-> "AllowCompaction" \in d.buildFlags,
       maxInstances |-> d.topLevelMaxInstances]>>

\* createAccelStruct(d), where the wrapped device answers `as` to createAccelStruct
createAccelStruct(d, as) ==
    LET log == <<DevCall("createAccelStruct", d, as)>>
    IN  IF as = NULL
        THEN Returned(NULL, <<>>, log)
        ELSE IF "AllowCompaction" \in d.buildFlags /\ d.isTopLevel
        THEN Returned(NULL, <<Error("compaction is not supported for TLAS'es")>>, log)
        ELSE IF "AllowUpdate" \in d.buildFlags /\ "AllowCompaction" \in d.buildFlags
        THEN Returned(NULL, <<Error("incompatible flags: AllowUpdate and AllowCompaction")>>, log)
        ELSE Returned(AccelStructWrapper(as, d), <<>>, log)

CreateAccelStruct ==
    /\ pc = "idle"
    /\ \E d \in AccelStructDescs :
          \E as \in {NULL, BackendAccelStruct(d)} :
              Call("createAccelStruct", d, createAccelStruct(d, as))

(***************************************************************************)
(* createSamplerFeedbackTexture, createSamplerFeedbackForNativeTexture     *)
(***************************************************************************)
\* bound on the nesting of calls the stack holds
MaxStackDepth == 3

Textures == {NULL, <<"Texture", "paired">>}

SamplerFeedbackTextureDescs ==
    [keepInitialState : BOOLEAN, initialState : ResourceStates]

NativeObjectTypes == {"D3D12_Resource", "VK_Image"}

NativeObjects == {NULL, <<"native", "resource">>}

GetGraphicsAPI == DevCall("getGraphicsAPI", NoValue, api)

\* createSamplerFeedbackTexture(pairedTexture, desc), where the wrapped device answers
\* `result` to createSamplerFeedbackTexture
createSamplerFeedbackTexture(a, result) ==
    IF api # "D3D12"
    THEN Returned(NULL, <<Error("doesn't support createSamplerFeedbackTexture")>>,
                  <<GetGraphicsAPI, GetGraphicsAPI>>)
    ELSE Returned(result, <<>>,
                  <<GetGraphicsAPI, DevCall("createSamplerFeedbackTexture", a, result)>>)

CreateSamplerFeedbackTexture ==
    /\ pc = "idle"
    /\ \E t \in Textures, d \in SamplerFeedbackTextureDescs, result \in BackendHandles :
          LET a == [pairedTexture |-> t, desc |-> d]
          IN  Call("createSamplerFeedbackTexture", a, createSamplerFeedbackTexture(a, result))

\* createSamplerFeedbackForNativeTexture up to its return statement: on D3D12 the
\* return statement calls DeviceWrapper::createSamplerFeedbackForNativeTexture, the
\* method itself, and the call is left running one level deep
CreateSamplerFeedbackForNativeTexture ==
    /\ pc = "idle"
    /\ \E o \in NativeObjectTypes, n \in NativeObjects, t \in Textures :
          LET a == [objectType |-> o, texture |-> n, pairedTexture |-> t]
          IN  IF api # "D3D12"
              THEN Call("createSamplerFeedbackForNativeTexture", a,
                        Returned(NULL,
                                 <<Error("doesn't support createSamplerFeedbackForNativeTexture")>>,
                                 <<GetGraphicsAPI, GetGraphicsAPI>>))
              ELSE /\ pc' = "running"
                   /\ op' = "createSamplerFeedbackForNativeTexture"
                   /\ args' = a
                   /\ ret' = NoValue
                   /\ msgs' = <<>>
                   /\ devLog' = <<GetGraphicsAPI>>
                   /\ deref' = FALSE
                   /\ tableIdx' = {}
                   /\ depth' = 1
                   /\ UNCHANGED api

\* the nested call of createSamplerFeedbackForNativeTexture runs the same body with
\* the same arguments: it asks for the graphics API, finds D3D12 and calls itself
ReenterCreateSamplerFeedbackForNativeTexture ==
    /\ pc = "running"
    /\ op = "createSamplerFeedbackForNativeTexture"
    /\ depth < MaxStackDepth
    /\ depth' = depth + 1
    /\ devLog' = Append(devLog, GetGraphicsAPI)
    /\ UNCHANGED <<api, pc, op, args, ret, msgs, deref, tableIdx>>

\* no frame is left for the next nested call: the process dies without the call
\* having returned (a build that reuses the frame re-enters forever instead)
StackExhausted ==
    /\ pc = "running"
    /\ depth = MaxStackDepth
    /\ pc' = "crashed"
    /\ UNCHANGED <<api, op, args, ret, msgs, devLog, deref, tableIdx, depth>>

NextCreate ==
    \/ CreateAccelStruct
    \/ CreateSamplerFeedbackTexture
    \/ CreateSamplerFeedbackForNativeTexture
    \/ ReenterCreateSamplerFeedbackForNativeTexture
    \/ StackExhausted
    \/ Return

SpecCreate == Init /\ [][NextCreate]_vars

(***************************************************************************)
(* uint64_t: four limbs of 16 bits, the most significant first             *)
(***************************************************************************)
LimbBase == 2^16

U64Zero == <<0, 0, 0, 0>>

U64Max == <<LimbBase - 1, LimbBase - 1, LimbBase - 1, LimbBase - 1>>

\* a value below 2^16 as a uint64_t
U64Small(n) == <<0, 0, 0, n>>

\* x + y as an integer: the low 64 bits and the carry out of bit 63
U64Sum(x, y) ==
    LET s4 == x[4] + y[4]
        s3 == x[3] + y[3] + (s4 \div LimbBase)
        s2 == x[2] + y[2] + (s3 \div LimbBase)
        s1 == x[1] + y[1] + (s2 \div LimbBase)
    IN  [low |-> <<s1 % LimbBase, s2 % LimbBase, s3 % LimbBase, s4 % LimbBase>>,
         carry |-> s1 \div LimbBase]

\* x + y of two uint64_t operands: the sum modulo 2^64
U64Add(x, y) == U64Sum(x, y).low

\* x > y
U64Greater(x, y) ==
    \/ x[1] > y[1]
    \/ x[1] = y[1] /\ x[2] > y[2]
    \/ x[1] = y[1] /\ x[2] = y[2] /\ x[3] > y[3]
    \/ x[1] = y[1] /\ x[2] = y[2] /\ x[3] = y[3] /\ x[4] > y[4]

\* x % m for a nonzero m below 2^15 (the alignments of the model)
U64Mod(x, m) ==
    LET r1 == x[1] % m[4]
        r2 == (r1 * LimbBase + x[2]) % m[4]
        r3 == (r2 * LimbBase + x[3]) % m[4]
    IN  U64Small((r3 * LimbBase + x[4]) % m[4])

(***************************************************************************)
(* createHeap, bindTextureMemory, bindBufferMemory, bindAccelStructMemory  *)
(***************************************************************************)
HeapCapacities == {U64Small(256), U64Small(512), <<0, 0, 2, 0>>, U64Max}

\* heaps: the null handle and heaps of nonzero capacity
Heaps == {NULL} \cup {<<"Heap", [capacity |-> c]>> : c \in HeapCapacities}

Offsets ==
    {U64Zero, U64Small(256), U64Small(300), <<0, 0, 1, 0>>,
     <<LimbBase - 1, LimbBase - 1, LimbBase - 1, LimbBase - 256>>, U64Max}

\* the memory requirements the wrapped device may report
MemoryRequirements ==
    [size : {U64Small(256), U64Small(512), <<0, 0, 1, 0>>, U64Max},
     alignment : {U64Zero, U64Small(1), U64Small(256)}]

\* textures and buffers that exist: their descriptors, as far as binding reads them
TextureObjects == {<<"Texture", [isVirtual |-> v]>> : v \in BOOLEAN}

BufferObjects == {<<"Buffer", [isVirtual |-> v]>> : v \in BOOLEAN}

\* acceleration structures that exist: those of the wrapped device and the wrappers
\* createAccelStruct returns around them
BoundAccelStructDescs ==
    {d \in AccelStructDescs : d.buildFlags = {} /\ d.topLevelMaxInstances = 0}

AccelStructObjects ==
    {BackendAccelStruct(d) : d \in BoundAccelStructDescs}
    \cup {AccelStructWrapper(BackendAccelStruct(d), d) : d \in BoundAccelStructDescs}

\* dynamic_cast<AccelStructWrapper*>(as), then getUnderlyingObject()
UnderlyingAccelStruct(as) ==
    IF as[1] = "AccelStructWrapper" THEN as[2].underlying ELSE as

\* offset + memReq.size > heapDesc.capacity, as the sum of two uint64_t is computed
DoesNotFit(offset, size, capacity) ==
    U64Greater(U64Add(offset, size), capacity)

\* memReq.alignment != 0 && (offset % memReq.alignment) != 0
Misaligned(offset, alignment) ==
    alignment # U64Zero /\ U64Mod(offset, alignment) # U64Zero

\* the body the three bind methods share, from the virtual check on: `resource` is
\* the object handed to the wrapped device, `bind` and `query` its methods
bindMemory(bind, query, resource, heap, offset, memReq, result) ==
    IF ~resource[2].isVirtual
    THEN Returned(FALSE, <<Error("created with isVirtual = false")>>, <<>>)
    ELSE LET log == <<DevCall(query, resource, memReq)>>
         IN  IF DoesNotFit(offset, memReq.size, heap[2].capacity)
             THEN Returned(FALSE, <<Error("does not fit into heap")>>, log)
             ELSE IF Misaligned(offset, memReq.alignment)
             THEN Returned(FALSE, <<Error("placed in heap at invalid alignment")>>, log)
             ELSE Returned(result, <<>>,
                           log \o <<DevCall(bind, [resource |-> resource, heap |-> heap,
                                                   offset |-> offset], result)>>)

bindTextureMemory(texture, heap, offset, memReq, result) ==
    IF texture = NULL
    THEN Returned(FALSE, <<Error("bindTextureMemory: texture is NULL")>>, <<>>)
    ELSE IF heap = NULL
    THEN Returned(FALSE, <<Error("bindTextureMemory: heap is NULL")>>, <<>>)
    ELSE bindMemory("bindTextureMemory", "getTextureMemoryRequirements",
                    texture, heap, offset, memReq, result)

bindBufferMemory(buffer, heap, offset, memReq, result) ==
    IF buffer = NULL
    THEN Returned(FALSE, <<Error("bindBufferMemory: texture is NULL")>>, <<>>)
    ELSE IF heap = NULL
    THEN Returned(FALSE, <<Error("bindBufferMemory: heap is NULL")>>, <<>>)
    ELSE bindMemory("bindBufferMemory", "getBufferMemoryRequirements",
                    buffer, heap, offset, memReq, result)

bindAccelStructMemory(as, heap, offset, memReq, result) ==
    IF as = NULL
    THEN Returned(FALSE, <<Error("bindAccelStructMemory: texture is NULL")>>, <<>>)
    ELSE IF heap = NULL
    THEN Returned(FALSE, <<Error("bindAccelStructMemory: heap is NULL")>>, <<>>)
    ELSE bindMemory("bindAccelStructMemory", "getAccelStructMemoryRequirements",
                    UnderlyingAccelStruct(as), heap, offset, memReq, result)

\* createHeap(d), where the wrapped device answers `result` to createHeap
createHeap(d, result) ==
    IF d.capacity = U64Zero
    THEN Returned(NULL, <<Error("Cannot create a Heap with capacity = 0")>>, <<>>)
    ELSE Returned(result, <<>>, <<DevCall("createHeap", d, result)>>)

CreateHeap ==
    /\ pc = "idle"
    /\ \E c \in HeapCapacities \cup {U64Zero}, result \in BackendHandles :
          Call("createHeap", [capacity |-> c], createHeap([capacity |-> c], result))

BindTextureMemory ==
    /\ pc = "idle"
    /\ \E t \in TextureObjects \cup {NULL}, h \in Heaps, o \in Offsets,
          m \in MemoryRequirements, result \in BOOLEAN :
          Call("bindTextureMemory", [resource |-> t, heap |-> h, offset |-> o],
               bindTextureMemory(t, h, o, m, result))

BindBufferMemory ==
    /\ pc = "idle"
    /\ \E b \in BufferObjects \cup {NULL}, h \in Heaps, o \in Offsets,
          m \in MemoryRequirements, result \in BOOLEAN :
          Call("bindBufferMemory", [resource |-> b, heap |-> h, offset |-> o],
               bindBufferMemory(b, h, o, m, result))

BindAccelStructMemory ==
    /\ pc = "idle"
    /\ \E as \in AccelStructObjects \cup {NULL}, h \in Heaps, o \in Offsets,
          m \in MemoryRequirements, result \in BOOLEAN :
          Call("bindAccelStructMemory", [resource |-> as, heap |-> h, offset |-> o],
               bindAccelStructMemory(as, h, o, m, result))

NextMemory ==
    \/ CreateHeap
    \/ BindTextureMemory
    \/ BindBufferMemory
    \/ BindAccelStructMemory
    \/ Return

SpecMemory == Init /\ [][NextMemory]_vars

(***************************************************************************)
(* Binding summaries: Range, BindingLocation, BindingSummary               *)
(***************************************************************************)
\* the single-stage values of ShaderType
ShaderTypes ==
    {"Vertex", "Hull", "Domain", "Geometry", "Pixel", "Compute", "Amplification", "Mesh"}

SRVTypes ==
    {"Texture_SRV", "TypedBuffer_SRV", "StructuredBuffer_SRV", "RawBuffer_SRV",
     "RayTracingAccelStruct"}

UAVTypes ==
    {"Texture_UAV", "TypedBuffer_UAV", "StructuredBuffer_UAV", "RawBuffer_UAV",
     "SamplerFeedbackTexture_UAV"}

CBTypes == {"ConstantBuffer", "VolatileConstantBuffer", "PushConstants"}

\* the values of ResourceType; None and Count name no kind of resource
ResourceTypes == SRVTypes \cup UAVTypes \cup CBTypes \cup {"Sampler", "None", "Count"}

\* largest number of binding layouts of a pipeline, and size of the table
\* registerSpaceToLayoutIdx
c_MaxBindingLayouts == 8

\* largest size in bytes of the push constants of a pipeline
c_MaxPushConstantSize == 128

\* a Range no slot was added to: min is initialised above max
EmptyRange == <<2^30, 0>>

\* the smaller and the larger of two numbers
Min(a, b) == IF a < b THEN a ELSE b

Max(a, b) == IF a > b THEN a ELSE b

\* Range::add: a Range is <<min, max>>
Range_add(range, item) == <<Min(range[1], item), Max(range[2], item)>>

\* a Range of one slot taken for empty too
Range_empty_OrOneSlot(range) == range[1] >= range[2]

\* Range::empty
Range_empty(range) == range[1] > range[2]

\* both Ranges are non-empty
Range_overlapsWith_NonEmpty(range, other) ==
    /\ ~Range_empty(range)
    /\ ~Range_empty(other)

\* Range::overlapsWith
Range_overlapsWith(range, other) ==
    /\ ~Range_empty(range)
    /\ ~Range_empty(other)
    /\ range[2] >= other[1]
    /\ range[1] <= other[2]

\* the resource class a BindingLocation is constructed with
DefaultLocationType == "SRV"

\* a BindingSummary nothing was added to
EmptyBindingSummary ==
    [rangeSRV |-> EmptyRange, rangeSampler |-> EmptyRange, rangeUAV |-> EmptyRange,
     rangeCB |-> EmptyRange, numVolatileCBs |-> 0, locations |-> {}]

\* the summary, the duplicates and the messages a fill starts from
EmptyFill(messages) ==
    [bindings |-> EmptyBindingSummary, duplicates |-> {}, msgs |-> messages]

\* the switch of UpdateBindingSummaryWithLocation: the class given to the location
\* and the Range and counter updated; an invalid type is reported to the message
\* callback and leaves the location's class as constructed
ClassifiedLocation(type, location, fill) ==
    IF type \in SRVTypes
    THEN [location |-> [location EXCEPT !.type = "SRV"],
          fill |-> [fill EXCEPT !.bindings.rangeSRV = Range_add(@, location.slot)]]
    ELSE IF type \in UAVTypes
    THEN [location |-> [location EXCEPT !.type = "UAV"],
          fill |-> [fill EXCEPT !.bindings.rangeUAV = Range_add(@, location.slot)]]
    ELSE IF type \in CBTypes
    THEN [location |-> [location EXCEPT !.type = "CB"],
          fill |-> [fill EXCEPT !.bindings.rangeCB = Range_add(@, location.slot),
                                !.bindings.numVolatileCBs =
                                    IF type = "VolatileConstantBuffer" THEN @ + 1 ELSE @]]
    ELSE IF type = "Sampler"
    THEN [location |-> [location EXCEPT !.type = "Sampler"],
          fill |-> [fill EXCEPT !.bindings.rangeSampler = Range_add(@, location.slot)]]
    ELSE [location |-> location,
          fill |-> [fill EXCEPT !.msgs = Append(@, Error("Invalid layout item type"))]]

\* UpdateBindingSummaryWithLocation: a location already in the summary goes to the
\* duplicates, a new one into the summary
UpdateBindingSummaryWithLocation(type, location, fill) ==
    The({IF c.location \in c.fill.bindings.locations
         THEN [c.fill EXCEPT !.duplicates = @ \cup {c.location}]
         ELSE [c.fill EXCEPT !.bindings.locations = @ \cup {c.location}] :
         c \in {ClassifiedLocation(type, location, fill)}})

\* BindingLayoutItem::getArraySize: push constants count as one element, any other
\* item has `size` elements
getArraySize(item) == IF item.type = "PushConstants" THEN 1 ELSE item.size

\* the loop over the array elements of one item in FillBindingLayoutSummary
RECURSIVE FillArrayElements(_, _, _, _)
FillArrayElements(desc, item, arrayElement, fill) ==
    LET location == [type |-> DefaultLocationType, registerSpace |-> desc.registerSpace,
                     slot |-> item.slot, arrayElement |-> arrayElement]
        updated == UpdateBindingSummaryWithLocation(item.type, location, fill)
    IN  IF arrayElement >= getArraySize(item)
        THEN fill
        ELSE The({FillArrayElements(desc, item, arrayElement + 1, u) : u \in {updated}})

\* the loop over the items in FillBindingLayoutSummary, from item i on
RECURSIVE FillItems(_, _, _)
FillItems(desc, i, fill) ==
    LET filled == FillArrayElements(desc, desc.bindings[i], 0, fill)
    IN  IF i > Len(desc.bindings)
        THEN fill
        ELSE The({FillItems(desc, i + 1, f) : f \in {filled}})

FillBindingLayoutSummary(desc, fill) == FillItems(desc, 1, fill)

\* SetIntersection and SetUnionInplace of the validation layer
SetIntersection(a, b) == {item \in a : item \in b}

SetUnionInplace(a, b) == a \cup b

\* BindingSummary::any
BindingSummary_any(bindings) == bindings.locations # {}

(***************************************************************************)
(* validatePipelineBindingLayouts                                          *)
(***************************************************************************)
\* what an access the language leaves undefined (a call through a null pointer, a
\* write past the end of the table) or a failed assert does in the build at hand:
\* the process dies, or execution goes on
Faults == {"abort", "continue"}

\* IBindingLayout::getDesc of the wrapped device's layouts: the descriptor of a
\* regular layout; a bindless layout has none
HasDesc(layout) == layout[1] = "BindingLayout"

getDesc(layout) == layout[2]

\* IBindingLayout::getBindlessDesc is non-null for a bindless layout only
HasBindlessDesc(layout) == layout[1] = "BindlessLayout"

\* layoutDesc->visibility & stage, the visibility being the set of its stages
VisibleTo_Always(layoutDesc, stage) == TRUE

VisibleTo(layoutDesc, stage) == stage \in layoutDesc.visibility

\* the text of the message about the null layout in slot layoutIndex
NullLayoutMessage(layoutIndex) ==
    Error("Binding layout in slot " \o ToString(layoutIndex) \o " is NULL")

\* what the per-shader part of the validation starts from
NoFindings ==
    [msgs |-> <<>>, devLog |-> <<>>, anyErrors |-> FALSE, crashed |-> FALSE,
     bindingsPerLayout |-> <<>>, duplicateBindings |-> <<>>, overlappingBindings |-> <<>>]

\* the loop over the layouts for one stage, from the layout in position k on
\* (layoutIndex = k - 1): a null layout is reported, a layout the stage sees is
\* summarised, and the assert fails on a layout with duplicates of its own
RECURSIVE AccumulateLayouts(_, _, _, _, _)
AccumulateLayouts(bindingLayouts, stage, k, fault, acc) ==
    LET layout == bindingLayouts[k]
        filled == FillBindingLayoutSummary(getDesc(layout), EmptyFill(acc.msgs))
        summarised ==
            The({[acc EXCEPT !.msgs = f.msgs,
                             !.bindingsPerLayout = Append(@, f.bindings),
                             !.crashed = f.duplicates # {} /\ fault = "abort"] :
                 f \in {filled}})
        next ==
            IF layout = NULL
            THEN [acc EXCEPT !.msgs = Append(@, NullLayoutMessage(k - 1)),
                             !.anyErrors = TRUE,
                             !.bindingsPerLayout = Append(@, EmptyBindingSummary)]
            ELSE IF ~HasDesc(layout)
            THEN [acc EXCEPT !.bindingsPerLayout = Append(@, EmptyBindingSummary)]
            ELSE IF ~VisibleTo(getDesc(layout), stage)
            THEN [acc EXCEPT !.bindingsPerLayout = Append(@, EmptyBindingSummary)]
            ELSE summarised
    IN  IF k > Len(bindingLayouts) \/ acc.crashed
        THEN acc
        ELSE The({AccumulateLayouts(bindingLayouts, stage, k + 1, fault, n) : n \in {next}})

\* the loop with the locations of the layout before in place of the union of the
\* locations of all layouts before
RECURSIVE RunningUnion_Adjacent(_, _, _, _)
RunningUnion_Adjacent(bindingsPerLayout, k, bindings, duplicates) ==
    LET locations == bindingsPerLayout[k].locations
        next == <<locations,
                  SetUnionInplace(duplicates, SetIntersection(bindings, locations))>>
    IN  IF k > Len(bindingsPerLayout)
        THEN duplicates
        ELSE The({RunningUnion_Adjacent(bindingsPerLayout, k + 1, n[1], n[2]) : n \in {next}})

\* the running union over the layouts from position k on: the locations seen so far
\* and the ones seen twice
RECURSIVE RunningUnion(_, _, _, _)
RunningUnion(bindingsPerLayout, k, bindings, duplicates) ==
    LET locations == bindingsPerLayout[k].locations
        next == <<SetUnionInplace(bindings, locations),
                  SetUnionInplace(duplicates, SetIntersection(bindings, locations))>>
    IN  IF k > Len(bindingsPerLayout)
        THEN duplicates
        ELSE The({RunningUnion(bindingsPerLayout, k + 1, n[1], n[2]) : n \in {next}})

\* the locations more than one layout declares for the stage
DuplicateLocations(bindingsPerLayout) ==
    RunningUnion(bindingsPerLayout, 2, bindingsPerLayout[1].locations, {})

\* some pair of layouts i < j has overlapping Ranges of the class
Overlap(bindingsPerLayout, class) ==
    \E i \in 1..Len(bindingsPerLayout) - 1 :
        \E j \in i + 1..Len(bindingsPerLayout) :
            Range_overlapsWith(bindingsPerLayout[i][class], bindingsPerLayout[j][class])

\* the names of the classes with overlapping Ranges, in the order they are appended
OverlappingClasses(bindingsPerLayout) ==
    (IF Overlap(bindingsPerLayout, "rangeSRV") THEN <<"SRV">> ELSE <<>>)
    \o (IF Overlap(bindingsPerLayout, "rangeSampler") THEN <<"Sampler">> ELSE <<>>)
    \o (IF Overlap(bindingsPerLayout, "rangeUAV") THEN <<"UAV">> ELSE <<>>)
    \o (IF Overlap(bindingsPerLayout, "rangeCB") THEN <<"CB">> ELSE <<>>)

\* the checks of one stage after its layouts were summarised: duplicates, and on
\* D3D11, when there are none, overlapping Ranges
CheckStage(stage, acc) ==
    IF acc.crashed \/ Len(acc.bindingsPerLayout) <= 1
    THEN acc
    ELSE IF DuplicateLocations(acc.bindingsPerLayout) # {}
    THEN [acc EXCEPT !.duplicateBindings =
                 Append(@, <<stage, DuplicateLocations(acc.bindingsPerLayout)>>)]
    ELSE IF api = "D3D11" /\ OverlappingClasses(acc.bindingsPerLayout) # <<>>
    THEN [acc EXCEPT !.devLog = Append(@, GetGraphicsAPI),
                     !.overlappingBindings =
                         Append(@, <<stage, OverlappingClasses(acc.bindingsPerLayout)>>)]
    ELSE [acc EXCEPT !.devLog = Append(@, GetGraphicsAPI)]

\* the loop over the shaders, from the shader in position s on
RECURSIVE PerShader(_, _, _, _, _)
PerShader(bindingLayouts, shaders, s, fault, acc) ==
    LET stage == shaders[s][2].shaderType
        accumulated == AccumulateLayouts(bindingLayouts, stage, 1, fault,
                                         [acc EXCEPT !.bindingsPerLayout = <<>>])
        checked == The({CheckStage(stage, a) : a \in {accumulated}})
    IN  IF s > Len(shaders) \/ acc.crashed
        THEN acc
        ELSE The({PerShader(bindingLayouts, shaders, s + 1, fault, c) : c \in {checked}})

\* the two messages that close the per-shader part: <<severity, text, findings>>,
\* the findings being one <<stage, locations>> or <<stage, classes>> per stage named
DuplicateBindingsMessage(findings) ==
    <<"Error", "Same bindings defined by more than one layout in this pipeline:", findings>>

OverlappingBindingsMessage(findings) ==
    <<"Error", "Binding layouts have overlapping register ranges:", findings>>

ReportStages(acc) ==
    IF acc.crashed
    THEN acc
    ELSE [acc EXCEPT
            !.msgs = @ \o (IF acc.duplicateBindings # <<>>
                           THEN <<DuplicateBindingsMessage(acc.duplicateBindings)>>
                           ELSE <<>>)
                       \o (IF acc.overlappingBindings # <<>>
                           THEN <<OverlappingBindingsMessage(acc.overlappingBindings)>>
                           ELSE <<>>),
            !.anyErrors = @ \/ acc.duplicateBindings # <<>> \/ acc.overlappingBindings # <<>>]

\* what the pass over the layouts for push constants and register spaces starts
\* from: the table registerSpaceToLayoutIdx holds -1 in each of its entries
NoLayoutFindings(acc) ==
    [msgs |-> acc.msgs, anyErrors |-> acc.anyErrors, crashed |-> acc.crashed,
     deref |-> FALSE, tableIdx |-> {},
     pushConstantCount |-> 0, pushConstantSize |-> 0,
     registerSpaceIsDescriptorSet |-> "Undetermined",
     registerSpaceToLayoutIdx |-> [space \in 0..c_MaxBindingLayouts - 1 |-> -1]]

\* the push constant items among the bindings of a layout
PushConstantItems(layoutDesc) ==
    {i \in 1..Len(layoutDesc.bindings) : layoutDesc.bindings[i].type = "PushConstants"}

\* the largest of `size` and the sizes of the push constant items of a layout
RECURSIVE MaxPushConstantSize(_, _, _)
MaxPushConstantSize(layoutDesc, i, size) ==
    IF i > Len(layoutDesc.bindings)
    THEN size
    ELSE MaxPushConstantSize(layoutDesc, i + 1,
             IF layoutDesc.bindings[i].type = "PushConstants"
             THEN Max(size, layoutDesc.bindings[i].size)
             ELSE size)

\* the messages about the register space of the layout at layoutIndex
RegisterSpaceTooLarge(layoutIndex, registerSpace) ==
    Error("Binding layout at index " \o ToString(layoutIndex)
          \o " has registerSpace = " \o ToString(registerSpace)
          \o ". Largest supported registerSpace index is "
          \o ToString(c_MaxBindingLayouts - 1))

RegisterSpaceUsed(layoutIndex, registerSpace, usedBy) ==
    Error("Binding layout at index " \o ToString(layoutIndex)
          \o " has registerSpace = " \o ToString(registerSpace)
          \o ". That register space has already been used in layout index "
          \o ToString(usedBy))

\* a layout with registerSpaceIsDescriptorSet: its register space is checked against
\* the table, then written to the table whatever that test found; the write is past
\* the end of the table when the register space is c_MaxBindingLayouts or more
DescriptorSetLayout(layoutDesc, layoutIndex, fault, acc) ==
    LET space == layoutDesc.registerSpace
        inTable == space < c_MaxBindingLayouts
        checked ==
            IF ~inTable
            THEN [acc EXCEPT !.msgs = Append(@, RegisterSpaceTooLarge(layoutIndex, space)),
                             !.anyErrors = TRUE]
            ELSE IF acc.registerSpaceToLayoutIdx[space] # -1
            THEN [acc EXCEPT !.msgs = Append(@, RegisterSpaceUsed(layoutIndex, space,
                                               acc.registerSpaceToLayoutIdx[space])),
                             !.anyErrors = TRUE]
            ELSE acc
        kind ==
            IF acc.registerSpaceIsDescriptorSet = "Undetermined" THEN "True"
            ELSE IF acc.registerSpaceIsDescriptorSet = "False" THEN "Mixed"
            ELSE acc.registerSpaceIsDescriptorSet
    IN  IF ~inTable /\ fault = "abort"
        THEN [checked EXCEPT !.tableIdx = @ \cup {space}, !.crashed = TRUE]
        ELSE [checked EXCEPT
                !.tableIdx = @ \cup {space},
                !.registerSpaceToLayoutIdx =
                    IF inTable THEN [@ EXCEPT ![space] = layoutIndex] ELSE @,
                !.registerSpaceIsDescriptorSet = kind]

\* a layout without registerSpaceIsDescriptorSet
RegisterSpaceLayout(acc) ==
    [acc EXCEPT !.registerSpaceIsDescriptorSet =
        IF @ = "Undetermined" THEN "False" ELSE IF @ = "True" THEN "Mixed" ELSE @]

\* the loop over the layouts from position k on (layoutIndex = k - 1): getDesc is
\* called on every entry, a null one included; where that call through the null
\* pointer does not end the process, the model lets it answer null
RECURSIVE PerLayout(_, _, _, _)
PerLayout(bindingLayouts, k, fault, acc) ==
    IF k > Len(bindingLayouts) \/ acc.crashed
    THEN acc
    ELSE LET layout == bindingLayouts[k]
             layoutDesc == getDesc(layout)
             counted ==
                 [acc EXCEPT
                    !.pushConstantCount = @ + Cardinality(PushConstantItems(layoutDesc)),
                    !.pushConstantSize = MaxPushConstantSize(layoutDesc, 1, @)]
             next ==
                 IF layout = NULL
                 THEN [acc EXCEPT !.deref = TRUE, !.crashed = (fault = "abort")]
                 ELSE IF ~HasDesc(layout)
                 THEN acc
                 ELSE IF layoutDesc.registerSpaceIsDescriptorSet
                 THEN DescriptorSetLayout(layoutDesc, k - 1, fault, counted)
                 ELSE RegisterSpaceLayout(counted)
         IN  The({PerLayout(bindingLayouts, k + 1, fault, n) : n \in {next}})

\* the checks that close the validation
ReportLayouts(acc) ==
    IF acc.crashed
    THEN acc
    ELSE [acc EXCEPT
            !.msgs = @ \o (IF acc.registerSpaceIsDescriptorSet = "Mixed"
                           THEN <<Error("Pipeline contains Binding layouts with differing values of registerSpaceIsDescriptorSet")>>
                           ELSE <<>>)
                       \o (IF acc.pushConstantCount > 1
                           THEN <<Error("Binding layout contains more than one ("
                                        \o ToString(acc.pushConstantCount)
                                        \o ") push constant blocks")>>
                           ELSE <<>>)
                       \o (IF acc.pushConstantSize > c_MaxPushConstantSize
                           THEN <<Error("Binding layout declares "
                                        \o ToString(acc.pushConstantSize)
                                        \o " bytes of push constant data, which exceeds the limit of "
                                        \o ToString(c_MaxPushConstantSize) \o " bytes")>>
                           ELSE <<>>),
            !.anyErrors = \/ @
                          \/ acc.registerSpaceIsDescriptorSet = "Mixed"
                          \/ acc.pushConstantCount > 1
                          \/ acc.pushConstantSize > c_MaxPushConstantSize]

\* validatePipelineBindingLayouts(bindingLayouts, shaders): whether the process died
\* in it, else its result, with the messages, the calls on the wrapped device, the
\* null access and the table indices of the call
validatePipelineBindingLayouts(bindingLayouts, shaders, fault) ==
    LET perShader == PerShader(bindingLayouts, shaders, 1, fault, NoFindings)
        stages == The({ReportStages(acc) : acc \in {perShader}})
    IN  The({LET perLayout == PerLayout(bindingLayouts, 1, fault, NoLayoutFindings(st))
                 layouts == The({ReportLayouts(acc) : acc \in {perLayout}})
             IN  The({[crashed |-> l.crashed, ok |-> ~l.anyErrors, msgs |-> l.msgs,
                       devLog |-> st.devLog, deref |-> l.deref, tableIdx |-> l.tableIdx] :
                      l \in {layouts}}) :
             st \in {stages}})

(***************************************************************************)
(* createGraphicsPipeline, createComputePipeline, createMeshletPipeline,   *)
(* createDescriptorTable                                                   *)
(***************************************************************************)
\* validateShaderType(expected, shaderDesc, function)
validateShaderType(expected, shaderDesc, function) ==
    IF expected = shaderDesc.shaderType
    THEN [ok |-> TRUE, msgs |-> <<>>]
    ELSE [ok |-> FALSE,
          msgs |-> <<Error("Unexpected shader type used in " \o function
                           \o ": expected shaderType = " \o expected
                           \o ", actual shaderType = " \o shaderDesc.shaderType)>>]

\* validateRenderState that warns about conservative rasterization the device does
\* not support and accepts the render state all the same
validateRenderState_WarnAndAccept(renderState, fb, supported) ==
    LET fbDesc == fb[2]
        query == DevCall("queryFeatureSupport", "ConservativeRasterization", supported)
    IN  IF fb = NULL
        THEN [ok |-> FALSE, msgs |-> <<Error("framebuffer is NULL")>>, devLog |-> <<>>]
        ELSE IF /\ renderState.depthTestEnable \/ renderState.stencilEnable
                /\ ~fbDesc.depthAttachment.valid
        THEN [ok |-> FALSE,
              msgs |-> <<Error("the framebuffer has no depth attachment")>>,
              devLog |-> <<>>]
        ELSE IF /\ \/ renderState.depthTestEnable /\ renderState.depthWriteEnable
                   \/ renderState.stencilEnable /\ renderState.stencilWriteMask # 0
                /\ fbDesc.depthAttachment.isReadOnly
        THEN [ok |-> FALSE,
              msgs |-> <<Error("the framebuffer's depth attachment is read-only")>>,
              devLog |-> <<>>]
        ELSE IF renderState.conservativeRasterEnable
        THEN IF supported
             THEN [ok |-> TRUE, msgs |-> <<>>, devLog |-> <<query>>]
             ELSE [ok |-> TRUE,
                   msgs |-> <<Warning("Conservative rasterization is not supported on this device")>>,
                   devLog |-> <<query>>]
        ELSE [ok |-> TRUE, msgs |-> <<>>, devLog |-> <<>>]

\* validateRenderState(renderState, fb), where the wrapped device answers `supported`
\* to queryFeatureSupport(Feature::ConservativeRasterization)
validateRenderState(renderState, fb, supported) ==
    LET fbDesc == fb[2]
        query == DevCall("queryFeatureSupport", "ConservativeRasterization", supported)
    IN  IF fb = NULL
        THEN [ok |-> FALSE, msgs |-> <<Error("framebuffer is NULL")>>, devLog |-> <<>>]
        ELSE IF /\ renderState.depthTestEnable \/ renderState.stencilEnable
                /\ ~fbDesc.depthAttachment.valid
        THEN [ok |-> FALSE,
              msgs |-> <<Error("the framebuffer has no depth attachment")>>,
              devLog |-> <<>>]
        ELSE IF /\ \/ renderState.depthTestEnable /\ renderState.depthWriteEnable
                   \/ renderState.stencilEnable /\ renderState.stencilWriteMask # 0
                /\ fbDesc.depthAttachment.isReadOnly
        THEN [ok |-> FALSE,
              msgs |-> <<Error("the framebuffer's depth attachment is read-only")>>,
              devLog |-> <<>>]
        ELSE IF renderState.conservativeRasterEnable
        THEN IF supported
             THEN [ok |-> TRUE, msgs |-> <<>>, devLog |-> <<query>>]
             ELSE [ok |-> FALSE,
                   msgs |-> <<Warning("Conservative rasterization is not supported on this device")>>,
                   devLog |-> <<query>>]
        ELSE [ok |-> TRUE, msgs |-> <<>>, devLog |-> <<>>]

g_GraphicsShaderStages == <<"Vertex", "Hull", "Domain", "Geometry", "Pixel">>

g_MeshletShaderStages == <<"Amplification", "Mesh", "Pixel">>

SelectGraphicsShaderStage(desc, stage) ==
    CASE stage = "Vertex" -> desc.VS
      [] stage = "Hull" -> desc.HS
      [] stage = "Domain" -> desc.DS
      [] stage = "Geometry" -> desc.GS
      [] stage = "Pixel" -> desc.PS

SelectMeshletShaderStage(desc, stage) ==
    CASE stage = "Amplification" -> desc.AS
      [] stage = "Mesh" -> desc.MS
      [] stage = "Pixel" -> desc.PS

\* the loop over the stages of a graphics or meshlet pipeline, from position i on;
\* selected[i] is <<stage, shader in the stage's slot of the descriptor>>: a shader
\* that is there is collected and its type compared with the stage, and the first
\* one of another type ends the call
RECURSIVE CollectShaders(_, _, _, _)
CollectShaders(selected, function, i, acc) ==
    LET stage == selected[i][1]
        shader == selected[i][2]
        check == validateShaderType(stage, shader[2], function)
        next == IF shader = NULL
                THEN acc
                ELSE [shaders |-> Append(acc.shaders, shader),
                      msgs |-> acc.msgs \o check.msgs,
                      ok |-> check.ok]
    IN  IF i > Len(selected) \/ ~acc.ok
        THEN acc
        ELSE The({CollectShaders(selected, function, i + 1, n) : n \in {next}})

NoShaders == [shaders |-> <<>>, msgs |-> <<>>, ok |-> TRUE]

\* what createGraphicsPipeline and createMeshletPipeline do once the shaders are
\* collected: the layouts are validated, then the render state, then the call is
\* forwarded as `method`
ValidateAndForward(method, a, collected, fault, supported, result) ==
    LET validated == validatePipelineBindingLayouts(a.pipelineDesc.bindingLayouts,
                                                    collected.shaders, fault)
        r == validateRenderState(a.pipelineDesc.renderState, a.fb, supported)
    IN  IF ~collected.ok
        THEN Returned(NULL, collected.msgs, <<>>)
        ELSE The({IF v.crashed
                  THEN Outcome("crashed", NoValue, v.msgs, v.devLog, v.deref, v.tableIdx)
                  ELSE IF ~v.ok
                  THEN Outcome("done", NULL, v.msgs, v.devLog, v.deref, v.tableIdx)
                  ELSE IF ~r.ok
                  THEN Outcome("done", NULL, v.msgs \o r.msgs, v.devLog \o r.devLog,
                               v.deref, v.tableIdx)
                  ELSE Outcome("done", result, v.msgs \o r.msgs,
                               v.devLog \o r.devLog \o <<DevCall(method, a, result)>>,
                               v.deref, v.tableIdx) :
                  v \in {validated}})

\* createGraphicsPipeline(pipelineDesc, fb), a = [pipelineDesc, fb]
createGraphicsPipeline(a, fault, supported, result) ==
    LET selected == [i \in 1..Len(g_GraphicsShaderStages) |->
                        <<g_GraphicsShaderStages[i],
                          SelectGraphicsShaderStage(a.pipelineDesc, g_GraphicsShaderStages[i])>>]
        collected == CollectShaders(selected, "createGraphicsPipeline", 1, NoShaders)
    IN  The({ValidateAndForward("createGraphicsPipeline", a, c, fault, supported, result) :
             c \in {collected}})

\* createMeshletPipeline(pipelineDesc, fb), a = [pipelineDesc, fb]
createMeshletPipeline(a, fault, supported, result) ==
    LET selected == [i \in 1..Len(g_MeshletShaderStages) |->
                        <<g_MeshletShaderStages[i],
                          SelectMeshletShaderStage(a.pipelineDesc, g_MeshletShaderStages[i])>>]
        collected == CollectShaders(selected, "createMeshletPipeline", 1, NoShaders)
    IN  The({ValidateAndForward("createMeshletPipeline", a, c, fault, supported, result) :
             c \in {collected}})

\* createComputePipeline with the layouts validated before the compute shader is
\* tested
createComputePipeline_ValidateFirst(a, fault, result) ==
    LET CS == a.pipelineDesc.CS
        shaders == IF CS = NULL THEN <<>> ELSE <<CS>>
        validated == validatePipelineBindingLayouts(a.pipelineDesc.bindingLayouts, shaders, fault)
        t == validateShaderType("Compute", CS[2], "createComputePipeline")
    IN  The({IF v.crashed
             THEN Outcome("crashed", NoValue, v.msgs, v.devLog, v.deref, v.tableIdx)
             ELSE IF CS = NULL
             THEN Outcome("done", NULL, Append(v.msgs, Error("createComputePipeline: CS = NULL")),
                          v.devLog, v.deref, v.tableIdx)
             ELSE IF ~v.ok
             THEN Outcome("done", NULL, v.msgs, v.devLog, v.deref, v.tableIdx)
             ELSE IF ~t.ok
             THEN Outcome("done", NULL, v.msgs \o t.msgs, v.devLog, v.deref, v.tableIdx)
             ELSE Outcome("done", result, v.msgs,
                          Append(v.devLog, DevCall("createComputePipeline", a, result)),
                          v.deref, v.tableIdx) :
             v \in {validated}})

\* createComputePipeline(pipelineDesc), a = [pipelineDesc]: the layouts are
\* validated before the type of the shader is
createComputePipeline(a, fault, result) ==
    LET CS == a.pipelineDesc.CS
        validated == validatePipelineBindingLayouts(a.pipelineDesc.bindingLayouts, <<CS>>, fault)
        t == validateShaderType("Compute", CS[2], "createComputePipeline")
    IN  IF CS = NULL
        THEN Returned(NULL, <<Error("createComputePipeline: CS = NULL")>>, <<>>)
        ELSE The({IF v.crashed
                  THEN Outcome("crashed", NoValue, v.msgs, v.devLog, v.deref, v.tableIdx)
                  ELSE IF ~v.ok
                  THEN Outcome("done", NULL, v.msgs, v.devLog, v.deref, v.tableIdx)
                  ELSE IF ~t.ok
                  THEN Outcome("done", NULL, v.msgs \o t.msgs, v.devLog, v.deref, v.tableIdx)
                  ELSE Outcome("done", result, v.msgs,
                               Append(v.devLog, DevCall("createComputePipeline", a, result)),
                               v.deref, v.tableIdx) :
                  v \in {validated}})

\* createDescriptorTable(layout): getBindlessDesc is called on the layout, a null one
\* included; where that call through the null pointer does not end the process it
\* answers something, null (`answer` false) or not
createDescriptorTable(layout, fault, answer, result) ==
    LET bindless == IF layout = NULL THEN answer ELSE HasBindlessDesc(layout)
    IN  IF layout = NULL /\ fault = "abort"
        THEN Outcome("crashed", NoValue, <<>>, <<>>, TRUE, {})
        ELSE IF ~bindless
        THEN Outcome("done", NULL,
                     <<Error("Descriptor tables can only be created with bindless layouts")>>,
                     <<>>, layout = NULL, {})
        ELSE Outcome("done", result, <<>>,
                     <<DevCall("createDescriptorTable", layout, result)>>,
                     layout = NULL, {})

(***************************************************************************)
(* Pipelines over layouts of one item each                                 *)
(***************************************************************************)
\* bound on the number of binding layouts of a pipeline descriptor
MaxLayouts == 2

\* layout items: a texture in slot 3 or 5, a sampler in slot 3
LayoutItems ==
    [type : {"Texture_SRV"}, slot : {3, 5}, size : {1}]
        \cup [type : {"Sampler"}, slot : {3}, size : {1}]

\* descriptors of layouts seen by the pixel stage only or by every stage
BindingLayoutDescs ==
    [visibility : {{"Pixel"}, ShaderTypes},
     registerSpace : {0, 1},
     registerSpaceIsDescriptorSet : {FALSE},
     bindings : {<<item>> : item \in LayoutItems}]

BindlessLayout == <<"BindlessLayout", "bindless">>

\* the layout handles a caller may hold: null, a bindless layout, regular layouts
BindingLayouts ==
    {NULL, BindlessLayout} \cup {<<"BindingLayout", d>> : d \in BindingLayoutDescs}

\* the static_vector bindingLayouts of a pipeline descriptor
LayoutLists == UNION {[1..n -> BindingLayouts] : n \in 0..MaxLayouts}

\* a shader of the given type
Shader(shaderType) == <<"Shader", [shaderType |-> shaderType]>>

\* a render state with depth, stencil and conservative rasterization off
RenderStates ==
    [depthTestEnable : {FALSE}, depthWriteEnable : {FALSE}, stencilEnable : {FALSE},
     stencilWriteMask : {0}, conservativeRasterEnable : {FALSE}]

\* no framebuffer, or one with a writable depth attachment
Framebuffers ==
    {NULL} \cup {<<"Framebuffer", d>> :
                    d \in [depthAttachment : [valid : {TRUE}, isReadOnly : {FALSE}]]}

GraphicsPipelineDescs ==
    [VS : {NULL, Shader("Vertex"), Shader("Pixel")}, HS : {NULL}, DS : {NULL},
     GS : {NULL}, PS : {NULL, Shader("Pixel")},
     bindingLayouts : LayoutLists, renderState : RenderStates]

MeshletPipelineDescs ==
    [AS : {NULL}, MS : {NULL, Shader("Mesh")}, PS : {NULL, Shader("Pixel")},
     bindingLayouts : LayoutLists, renderState : RenderStates]

ComputePipelineDescs ==
    [CS : {NULL, Shader("Compute"), Shader("Pixel")}, bindingLayouts : LayoutLists]

CreateGraphicsPipeline ==
    /\ pc = "idle"
    /\ \E d \in GraphicsPipelineDescs, fb \in Framebuffers, fault \in Faults,
          result \in BackendHandles :
          LET a == [pipelineDesc |-> d, fb |-> fb]
          IN  \E r \in {createGraphicsPipeline(a, fault, TRUE, result)} :
                  Call("createGraphicsPipeline", a, r)

CreateMeshletPipeline ==
    /\ pc = "idle"
    /\ \E d \in MeshletPipelineDescs, fb \in Framebuffers, fault \in Faults,
          result \in BackendHandles :
          LET a == [pipelineDesc |-> d, fb |-> fb]
          IN  \E r \in {createMeshletPipeline(a, fault, TRUE, result)} :
                  Call("createMeshletPipeline", a, r)

CreateComputePipeline ==
    /\ pc = "idle"
    /\ \E d \in ComputePipelineDescs, fault \in Faults, result \in BackendHandles :
          LET a == [pipelineDesc |-> d]
          IN  \E r \in {createComputePipeline(a, fault, result)} :
                  Call("createComputePipeline", a, r)

CreateDescriptorTable ==
    /\ pc = "idle"
    /\ \E layout \in BindingLayouts, fault \in Faults, answer \in BOOLEAN,
          result \in BackendHandles :
          Call("createDescriptorTable", [layout |-> layout],
               createDescriptorTable(layout, fault, answer, result))

\* a call the process died in never returns
NextPipeline ==
    \/ CreateGraphicsPipeline
    \/ CreateMeshletPipeline
    \/ CreateComputePipeline
    \/ CreateDescriptorTable
    \/ Return

SpecPipeline == Init /\ [][NextPipeline]_vars

(***************************************************************************)
(* Pipelines over layouts whose slot ranges may overlap                    *)
(***************************************************************************)
\* layout items of the four resource classes in slots 0, 3 and 5
RangeItems ==
    [type : {"Texture_SRV"}, slot : {0, 3, 5}, size : {1}]
        \cup [type : {"Sampler"}, slot : {0}, size : {1}]
        \cup [type : {"Texture_UAV", "ConstantBuffer"}, slot : {3}, size : {1}]

\* the bindings of a layout: one item, or a texture in slot 0 and one in slot 5
RangeBindings ==
    {<<item>> : item \in RangeItems}
        \cup {<<first, second>> :
                 first \in [type : {"Texture_SRV"}, slot : {0}, size : {1}],
                 second \in [type : {"Texture_SRV"}, slot : {5}, size : {1}]}

RangeLayouts ==
    {<<"BindingLayout", d>> :
        d \in [visibility : {{"Pixel"}, ShaderTypes},
               registerSpace : {0},
               registerSpaceIsDescriptorSet : {FALSE},
               bindings : RangeBindings]}

RangeLayoutLists == UNION {[1..n -> RangeLayouts] : n \in 0..MaxLayouts}

\* a framebuffer with a writable depth attachment
DepthFramebuffers == Framebuffers \ {NULL}

CreateGraphicsPipelineOverRanges ==
    /\ pc = "idle"
    /\ \E d \in [VS : {NULL, Shader("Vertex")}, HS : {NULL}, DS : {NULL}, GS : {NULL},
                 PS : {NULL, Shader("Pixel")},
                 bindingLayouts : RangeLayoutLists, renderState : RenderStates],
          fb \in DepthFramebuffers, fault \in Faults, result \in BackendHandles :
          LET a == [pipelineDesc |-> d, fb |-> fb]
          IN  \E r \in {createGraphicsPipeline(a, fault, TRUE, result)} :
                  Call("createGraphicsPipeline", a, r)

CreateComputePipelineOverRanges ==
    /\ pc = "idle"
    /\ \E d \in [CS : {Shader("Compute")}, bindingLayouts : RangeLayoutLists],
          fault \in Faults, result \in BackendHandles :
          LET a == [pipelineDesc |-> d]
          IN  \E r \in {createComputePipeline(a, fault, result)} :
                  Call("createComputePipeline", a, r)

NextRanges ==
    \/ CreateGraphicsPipelineOverRanges
    \/ CreateComputePipelineOverRanges
    \/ Return

SpecRanges == Init /\ [][NextRanges]_vars

(***************************************************************************)
(* Binding sets and descriptor tables                                      *)
(***************************************************************************)
\* SetDifference of the validation layer
SetDifference(a, b) == {item \in a : item \notin b}

\* the byte size of BufferRange that stands for the whole buffer (all bits set)
AllBytes == 2^30

\* alignment in bytes of the offset and the size of a constant-buffer range
c_ConstantBufferOffsetSizeAlignment == 256

EntireBuffer == [byteOffset |-> 0, byteSize |-> AllBytes]

\* the TextureSubresourceSet of a binding that names no subresources: all of them
AllSubresources ==
    [baseMipLevel |-> 0, numMipLevels |-> AllBytes,
     baseArraySlice |-> 0, numArraySlices |-> AllBytes]

\* BufferRange::isEntireBuffer
isEntireBuffer(range, desc) ==
    /\ range.byteOffset = 0
    /\ range.byteSize = AllBytes \/ range.byteSize = desc.byteSize

\* BufferRange::resolve: the effective range, the part of the range inside the
\* buffer; the effective size of a range of no bytes is zero
BufferRange_resolve(range, desc) ==
    LET offset == Min(range.byteOffset, desc.byteSize)
    IN  [byteOffset |-> offset, byteSize |-> Min(range.byteSize, desc.byteSize - offset)]

\* TextureSubresourceSet::resolve: the mip levels and array slices of the set that
\* the texture has
TextureSubresourceSet_resolve(subresources, desc) ==
    LET lastMip == Min(subresources.baseMipLevel + subresources.numMipLevels,
                       desc.mipLevels)
        lastSlice == Min(subresources.baseArraySlice + subresources.numArraySlices,
                         desc.arraySize)
    IN  [baseMipLevel |-> subresources.baseMipLevel,
         numMipLevels |-> Max(0, lastMip - subresources.baseMipLevel),
         baseArraySlice |-> subresources.baseArraySlice,
         numArraySlices |-> Max(0, lastSlice - subresources.baseArraySlice)]

textureDimensionsCompatible(resourceDimension, viewDimension) ==
    IF resourceDimension = viewDimension
    THEN TRUE
    ELSE IF resourceDimension = "Texture3D"
    THEN viewDimension = "Texture2DArray"
    ELSE IF resourceDimension \in {"TextureCube", "TextureCubeArray"}
    THEN viewDimension = "Texture2DArray"
    ELSE FALSE

\* ITexture::getDesc and IBuffer::getDesc: a resource is <<kind, descriptor>>
getResourceDesc(resource) == resource[2]

\* what validateBindingSetItem leaves behind: its return value, the line it wrote
\* to the error stream (none when it wrote nothing) and its calls on the wrapped
\* device.  A line of an error stream is <<text>>, or <<text, locations>> when it
\* prints a set of locations
ItemResult(valid, lines, log) == [ok |-> valid, text |-> lines, devLog |-> log]

ItemAccepted(log) == ItemResult(TRUE, <<>>, log)

ItemRejected(line, log) == ItemResult(FALSE, <<<<line>>>>, log)

\* the case of validateBindingSetItem for the texture views
validateTextureItem(binding) ==
    LET texture == binding.resourceHandle
        desc == getResourceDesc(texture)
        subresources == TextureSubresourceSet_resolve(binding.subresources, desc)
    IN  IF texture = NULL
        THEN ItemRejected("Null resource bindings are not allowed for textures.", <<>>)
        ELSE IF subresources.numArraySlices = 0 \/ subresources.numMipLevels = 0
        THEN ItemRejected("The specified subresource set does not intersect with the texture being bound", <<>>)
        ELSE IF binding.type = "Texture_UAV" /\ ~desc.isUAV
        THEN ItemRejected("cannot be used as a UAV because it does not have the isUAV flag set.", <<>>)
        ELSE IF /\ binding.dimension # "Unknown"
                /\ ~textureDimensionsCompatible(desc.dimension, binding.dimension)
        THEN ItemRejected("Requested binding dimension is incompatible with the dimension of texture", <<>>)
        ELSE ItemAccepted(<<>>)

\* the test of a null buffer: the graphics API is asked for only when the buffer is
\* null and the view is not a typed one
NullBufferQuery(binding) ==
    IF binding.resourceHandle = NULL
       /\ binding.type \notin {"TypedBuffer_SRV", "TypedBuffer_UAV"}
    THEN <<GetGraphicsAPI>>
    ELSE <<>>

NullBufferRejected(binding) ==
    /\ binding.resourceHandle = NULL
    /\ binding.type \notin {"TypedBuffer_SRV", "TypedBuffer_UAV"}
    /\ api # "VULKAN"

\* the checks of a partially bound ConstantBuffer with the size tested for its
\* alignment only
validateConstantBufferRange_ZeroSize(binding, desc, supported) ==
    LET query == <<DevCall("queryFeatureSupport", "ConstantBufferRanges", supported)>>
        range == BufferRange_resolve(binding.range, desc)
    IN  IF ~supported
        THEN ItemRejected("Partial binding of constant buffers is not supported by the device", query)
        ELSE IF range.byteOffset % c_ConstantBufferOffsetSizeAlignment # 0
        THEN ItemRejected("Constant buffer offsets must be a multiple of the alignment", query)
        ELSE IF range.byteSize % c_ConstantBufferOffsetSizeAlignment # 0
        THEN ItemRejected("Constant buffer bindings must have nonzero byteSize that is a multiple of the alignment", query)
        ELSE ItemAccepted(query)

\* the checks of a partially bound ConstantBuffer, where the wrapped device answers
\* `supported` to the query for ConstantBufferRanges
validateConstantBufferRange(binding, desc, supported) ==
    LET query == <<DevCall("queryFeatureSupport", "ConstantBufferRanges", supported)>>
        range == BufferRange_resolve(binding.range, desc)
    IN  IF ~supported
        THEN ItemRejected("Partial binding of constant buffers is not supported by the device", query)
        ELSE IF range.byteOffset % c_ConstantBufferOffsetSizeAlignment # 0
        THEN ItemRejected("Constant buffer offsets must be a multiple of the alignment", query)
        ELSE IF \/ range.byteSize = 0
                \/ range.byteSize % c_ConstantBufferOffsetSizeAlignment # 0
        THEN ItemRejected("Constant buffer bindings must have nonzero byteSize that is a multiple of the alignment", query)
        ELSE ItemAccepted(query)

\* the case of validateBindingSetItem for the buffer views
validateBufferItem(binding, supported) ==
    LET buffer == binding.resourceHandle
        desc == getResourceDesc(buffer)
        isTypedView == binding.type \in {"TypedBuffer_SRV", "TypedBuffer_UAV"}
        isStructuredView == binding.type \in {"StructuredBuffer_SRV", "StructuredBuffer_UAV"}
        isRawView == binding.type \in {"RawBuffer_SRV", "RawBuffer_UAV"}
        isUAV == binding.type \in {"TypedBuffer_UAV", "StructuredBuffer_UAV", "RawBuffer_UAV"}
        isConstantView == binding.type \in {"ConstantBuffer", "VolatileConstantBuffer"}
    IN  IF NullBufferRejected(binding)
        THEN ItemRejected("Null resource bindings are not allowed for buffers, unless it's a TypedBuffer_SRV or TypedBuffer_UAV type binding on DX11 or DX12.",
                          NullBufferQuery(binding))
        ELSE IF buffer = NULL
        THEN ItemAccepted(NullBufferQuery(binding))
        ELSE IF isTypedView /\ ~desc.canHaveTypedViews
        THEN ItemRejected("it doesn't support typed views (BufferDesc::canHaveTypedViews).", <<>>)
        ELSE IF isStructuredView /\ desc.structStride = 0
        THEN ItemRejected("it doesn't have structStride specified at creation.", <<>>)
        ELSE IF isRawView /\ ~desc.canHaveRawViews
        THEN ItemRejected("it doesn't support raw views (BufferDesc::canHaveRawViews).", <<>>)
        ELSE IF isUAV /\ ~desc.canHaveUAVs
        THEN ItemRejected("it doesn't support unordeded access views (BufferDesc::canHaveUAVs).", <<>>)
        ELSE IF isConstantView /\ ~desc.isConstantBuffer
        THEN ItemRejected("it doesn't support constant buffer views (BufferDesc::isConstantBuffer).", <<>>)
        ELSE IF binding.type = "ConstantBuffer" /\ desc.isVolatile
        THEN ItemRejected("as a regular ConstantBuffer because it's a VolatileConstantBuffer.", <<>>)
        ELSE IF binding.type = "VolatileConstantBuffer" /\ ~desc.isVolatile
        THEN ItemRejected("as a VolatileConstantBuffer because it's a regular ConstantBuffer.", <<>>)
        ELSE IF isTypedView /\ binding.format = "UNKNOWN" /\ desc.format = "UNKNOWN"
        THEN ItemRejected("Both binding for typed buffer and its BufferDesc have format == UNKNOWN.", <<>>)
        ELSE IF binding.type = "ConstantBuffer" /\ ~isEntireBuffer(binding.range, desc)
        THEN validateConstantBufferRange(binding, desc, supported)
        ELSE IF binding.type = "VolatileConstantBuffer" /\ ~isEntireBuffer(binding.range, desc)
        THEN ItemRejected("Volatile constant buffers cannot be partially bound.", <<>>)
        ELSE ItemAccepted(<<>>)

\* validateBindingSetItem(binding, isDescriptorTable, errorStream), where the wrapped
\* device answers `supported` to the query for ConstantBufferRanges
validateBindingSetItem(binding, isDescriptorTable, supported) ==
    CASE binding.type = "None" ->
            IF ~isDescriptorTable
            THEN ItemRejected("ResourceType::None bindings are not allowed in binding sets.", <<>>)
            ELSE ItemAccepted(<<>>)
      [] binding.type \in {"Texture_SRV", "Texture_UAV"} ->
            validateTextureItem(binding)
      [] binding.type = "SamplerFeedbackTexture_UAV" ->
            ItemAccepted(<<>>)
      [] binding.type \in {"TypedBuffer_SRV", "TypedBuffer_UAV", "StructuredBuffer_SRV",
                           "StructuredBuffer_UAV", "RawBuffer_SRV", "RawBuffer_UAV",
                           "ConstantBuffer", "VolatileConstantBuffer"} ->
            validateBufferItem(binding, supported)
      [] binding.type = "Sampler" ->
            IF binding.resourceHandle = NULL
            THEN ItemRejected("Null resource bindings are not allowed for samplers.", <<>>)
            ELSE ItemAccepted(<<>>)
      [] binding.type = "RayTracingAccelStruct" ->
            IF binding.resourceHandle = NULL
            THEN ItemRejected("Null resource bindings are not allowed for ray tracing acceleration structures.", <<>>)
            ELSE ItemAccepted(<<>>)
      [] binding.type = "PushConstants" ->
            IF isDescriptorTable
            THEN ItemRejected("Push constants cannot be used in a descriptor table.", <<>>)
            ELSE IF binding.resourceHandle # NULL
            THEN ItemRejected("Push constants cannot have a resource specified.", <<>>)
            ELSE IF binding.range.byteSize = 0
            THEN ItemRejected("Push constants must have nonzero size specified.", <<>>)
            ELSE ItemAccepted(<<>>)
      [] OTHER ->
            ItemRejected("Unrecognized resourceType", <<>>)

\* the resource handed on as it is, wrapper or not
unwrapResource_Identity(resource) == resource

\* unwrapResource
unwrapResource(resource) ==
    IF resource = NULL
    THEN NULL
    ELSE IF resource[1] = "AccelStructWrapper"
    THEN resource[2].underlying
    ELSE resource

\* the loop over the items in FillBindingSetSummary, from item i on
RECURSIVE FillSetItems(_, _, _, _)
FillSetItems(desc, registerSpace, i, fill) ==
    LET item == desc.bindings[i]
        location == [type |-> DefaultLocationType, registerSpace |-> registerSpace,
                     slot |-> item.slot, arrayElement |-> item.arrayElement]
        updated == UpdateBindingSummaryWithLocation(item.type, location, fill)
    IN  IF i > Len(desc.bindings)
        THEN fill
        ELSE The({FillSetItems(desc, registerSpace, i + 1, u) : u \in {updated}})

\* the summary of the set with every location put into register space 0
FillBindingSetSummary_SpaceZero(desc, registerSpace, fill) ==
    FillSetItems(desc, 0, 1, fill)

FillBindingSetSummary(desc, registerSpace, fill) ==
    FillSetItems(desc, registerSpace, 1, fill)

\* the loop of createBindingSet over the items, from item i on: the lines written to
\* the error stream, the calls on the wrapped device and whether an item failed
RECURSIVE ValidateItems(_, _, _, _)
ValidateItems(desc, supported, i, acc) ==
    LET item == validateBindingSetItem(desc.bindings[i], FALSE, supported)
        next == [anyErrors |-> acc.anyErrors \/ ~item.ok,
                 text |-> acc.text \o item.text,
                 devLog |-> acc.devLog \o item.devLog]
    IN  IF i > Len(desc.bindings)
        THEN acc
        ELSE The({ValidateItems(desc, supported, i + 1, n) : n \in {next}})

\* a line of the error stream that prints a set of locations
LocationsLine(text, locations) == <<text, locations>>

\* the descriptor handed on with the resource of the first item unwrapped only
PatchedBindingSetDesc_FirstItemOnly(desc) ==
    [desc EXCEPT !.bindings =
        [i \in 1..Len(desc.bindings) |->
            IF i = 1
            THEN [desc.bindings[i] EXCEPT !.resourceHandle = unwrapResource(@)]
            ELSE desc.bindings[i]]]

\* the descriptor createBindingSet hands on: every resource unwrapped
PatchedBindingSetDesc(desc) ==
    [desc EXCEPT !.bindings =
        [i \in 1..Len(desc.bindings) |->
            [desc.bindings[i] EXCEPT !.resourceHandle = unwrapResource(@)]]]

\* the part of createBindingSet after the layout was found to have a descriptor
createBindingSetFromLayout(desc, layout, supported, result) ==
    LET layoutFill == FillBindingLayoutSummary(getDesc(layout), EmptyFill(<<>>))
        setFill == FillBindingSetSummary(desc, getDesc(layout).registerSpace,
                                         EmptyFill(layoutFill.msgs))
        declaredNotBound == SetDifference(layoutFill.bindings.locations,
                                          setFill.bindings.locations)
        boundNotDeclared == SetDifference(setFill.bindings.locations,
                                          layoutFill.bindings.locations)
        lines == (IF declaredNotBound # {}
                  THEN <<LocationsLine("Bindings declared in the layout are not present in the binding set", declaredNotBound)>>
                  ELSE <<>>)
                 \o (IF boundNotDeclared # {}
                     THEN <<LocationsLine("Bindings in the binding set are not declared in the layout", boundNotDeclared)>>
                     ELSE <<>>)
                 \o (IF setFill.duplicates # {}
                     THEN <<LocationsLine("Binding set contains duplicate bindings", setFill.duplicates)>>
                     ELSE <<>>)
        items == ValidateItems(desc, supported, 1,
                               [anyErrors |-> lines # <<>>, text |-> lines, devLog |-> <<>>])
        patchedDesc == PatchedBindingSetDesc(desc)
    IN  IF items.anyErrors
        THEN Returned(NULL, Append(setFill.msgs, Error(items.text)), items.devLog)
        ELSE Returned(result, setFill.msgs,
                      Append(items.devLog,
                             DevCall("createBindingSet", <<patchedDesc, layout>>, result)))

\* createBindingSet(desc, layout), where the wrapped device answers `supported` to
\* the query for ConstantBufferRanges and `result` to createBindingSet
createBindingSet(desc, layout, supported, result) ==
    IF layout = NULL
    THEN Returned(NULL, <<Error("Cannot create a binding set without a valid layout")>>, <<>>)
    ELSE IF ~HasDesc(layout)
    THEN Returned(NULL, <<Error("Cannot create a binding set from a bindless layout")>>, <<>>)
    ELSE createBindingSetFromLayout(desc, layout, supported, result)

\* writeDescriptorTable(descriptorTable, item), where the wrapped device answers
\* `supported` to the query for ConstantBufferRanges and `result` to
\* writeDescriptorTable
writeDescriptorTable(descriptorTable, item, supported, result) ==
    LET validated == validateBindingSetItem(item, TRUE, supported)
        patchedItem == [item EXCEPT !.resourceHandle = unwrapResource(@)]
    IN  IF ~validated.ok
        THEN Returned(FALSE, <<Error(validated.text)>>, validated.devLog)
        ELSE Returned(result, <<>>,
                      Append(validated.devLog,
                             DevCall("writeDescriptorTable",
                                     <<descriptorTable, patchedItem>>, result)))

(***************************************************************************)
(* Binding sets over layouts of samplers, textures and push constants      *)
(***************************************************************************)
\* bound on the number of items of a binding set descriptor
MaxSetItems == 2

\* a BindingSetItem as its constructors leave it: the whole resource, no format and
\* no dimension asked for
BindingSetItem(type, slot, arrayElement, resourceHandle) ==
    [type |-> type, slot |-> slot, arrayElement |-> arrayElement,
     resourceHandle |-> resourceHandle, format |-> "UNKNOWN", dimension |-> "Unknown",
     subresources |-> AllSubresources, range |-> EntireBuffer]

SamplerResource == <<"Sampler", "sampler">>

\* a 2D texture of one mip level and one slice that cannot be a UAV
SampledTexture ==
    <<"Texture", [dimension |-> "Texture2D", isUAV |-> FALSE, mipLevels |-> 1,
                  arraySize |-> 1]>>

\* BindingSetItem::PushConstants(slot, byteSize)
PushConstantsItem(slot, byteSize) ==
    [BindingSetItem("PushConstants", slot, 0, NULL) EXCEPT
        !.range = [byteOffset |-> 0, byteSize |-> byteSize]]

\* items of binding sets: samplers in slots 0 and 1, textures in slot 0, array
\* elements 0 and 1, a sampler item without a sampler, 4 bytes of push constants
SetItems ==
    {BindingSetItem("Sampler", slot, e, SamplerResource) : slot \in 0..1, e \in 0..1}
        \cup {BindingSetItem("Texture_SRV", 0, e, SampledTexture) : e \in 0..1}
        \cup {BindingSetItem("Sampler", 0, 0, NULL), PushConstantsItem(0, 4)}

BindingSetDescs ==
    [bindings : UNION {[1..n -> SetItems] : n \in 0..MaxSetItems}]

\* items of the layouts the sets are created for: single items and arrays of two
SetLayoutItems ==
    [type : {"Sampler"}, slot : 0..1, size : 1..2]
        \cup [type : {"Texture_SRV"}, slot : {0}, size : 1..2]
        \cup [type : {"PushConstants"}, slot : {0}, size : {4}]

SetLayoutDescs ==
    [visibility : {ShaderTypes},
     registerSpace : {0, 1},
     registerSpaceIsDescriptorSet : {FALSE},
     bindings : UNION {[1..n -> SetLayoutItems] : n \in 0..2}]

SetLayouts ==
    {NULL, BindlessLayout} \cup {<<"BindingLayout", d>> : d \in SetLayoutDescs}

CreateBindingSet ==
    /\ pc = "idle"
    /\ \E layout \in SetLayouts, desc \in BindingSetDescs, result \in BackendHandles :
          \E r \in {createBindingSet(desc, layout, TRUE, result)} :
              Call("createBindingSet", [desc |-> desc, layout |-> layout], r)

NextBindingSet == CreateBindingSet \/ Return

SpecBindingSet == Init /\ [][NextBindingSet]_vars

(***************************************************************************)
(* Single binding items, written to a descriptor table or bound by a set   *)
(* of one item                                                             *)
(***************************************************************************)
\* constant buffers of one and of two alignment units, volatile or not
ConstantBufferResources ==
    {<<"Buffer", d>> : d \in
        [byteSize : {c_ConstantBufferOffsetSizeAlignment,
                     2 * c_ConstantBufferOffsetSizeAlignment},
         isConstantBuffer : {TRUE}, isVolatile : BOOLEAN,
         canHaveTypedViews : {FALSE}, structStride : {0}, canHaveRawViews : {FALSE},
         canHaveUAVs : {FALSE}, format : {"UNKNOWN"}]}

\* buffers that are not constant buffers, with every choice of view capabilities
ViewBufferResources ==
    {<<"Buffer", d>> : d \in
        [byteSize : {c_ConstantBufferOffsetSizeAlignment},
         isConstantBuffer : {FALSE}, isVolatile : {FALSE},
         canHaveTypedViews : BOOLEAN, structStride : {0, 16}, canHaveRawViews : BOOLEAN,
         canHaveUAVs : BOOLEAN, format : {"UNKNOWN", "R32_FLOAT"}]}

\* a buffer with no view capability at all
PlainBuffer ==
    CHOOSE b \in ViewBufferResources :
        /\ ~b[2].canHaveTypedViews /\ b[2].structStride = 0 /\ ~b[2].canHaveRawViews
        /\ ~b[2].canHaveUAVs /\ b[2].format = "UNKNOWN"

\* ranges from the start of the buffer, from a misaligned offset and from one
\* alignment unit in: of no bytes, of a misaligned size, of one or two alignment
\* units, and to the end of the buffer
BufferRanges ==
    [byteOffset : {0, 4, c_ConstantBufferOffsetSizeAlignment},
     byteSize : {0, 4, c_ConstantBufferOffsetSizeAlignment,
                 2 * c_ConstantBufferOffsetSizeAlignment, AllBytes}]

ConstantBufferItems ==
    {[BindingSetItem(type, 0, 0, buffer) EXCEPT !.range = range] :
        type \in {"ConstantBuffer", "VolatileConstantBuffer"},
        buffer \in {NULL, PlainBuffer} \cup ConstantBufferResources,
        range \in BufferRanges}

BufferViewItems ==
    {[BindingSetItem(type, 0, 0, buffer) EXCEPT !.format = format] :
        type \in {"TypedBuffer_SRV", "TypedBuffer_UAV", "StructuredBuffer_SRV",
                  "StructuredBuffer_UAV", "RawBuffer_SRV", "RawBuffer_UAV"},
        buffer \in {NULL} \cup ViewBufferResources,
        format \in {"UNKNOWN", "R32_FLOAT"}}

\* textures of one mip level and one slice
TextureResources ==
    {<<"Texture", d>> : d \in
        [dimension : {"Texture2D", "Texture3D", "TextureCube"}, isUAV : BOOLEAN,
         mipLevels : {1}, arraySize : {1}]}

\* all subresources, or mip level 1 alone
SubresourceSets ==
    {AllSubresources,
     [AllSubresources EXCEPT !.baseMipLevel = 1, !.numMipLevels = 1]}

TextureItems ==
    {[BindingSetItem(type, 0, 0, texture) EXCEPT
            !.dimension = dimension, !.subresources = subresources] :
        type \in {"Texture_SRV", "Texture_UAV"},
        texture \in {NULL} \cup TextureResources,
        dimension \in {"Unknown", "Texture2D", "Texture2DArray"},
        subresources \in SubresourceSets}

\* the acceleration structures a caller may hold: what createAccelStruct returned,
\* and acceleration structures of the wrapped device
AccelStructResources ==
    {BackendAccelStruct(d) : d \in AccelStructDescs}
        \cup ({createAccelStruct(d, BackendAccelStruct(d)).ret : d \in AccelStructDescs}
                  \ {NULL})

SamplerFeedbackResource == <<"SamplerFeedbackTexture", "feedback">>

OtherItems ==
    {BindingSetItem("Sampler", 0, 0, r) : r \in {NULL, SamplerResource}}
        \cup {BindingSetItem("RayTracingAccelStruct", 0, 0, r) :
                 r \in {NULL} \cup AccelStructResources}
        \cup {BindingSetItem("SamplerFeedbackTexture_UAV", 0, 0, r) :
                 r \in {NULL, SamplerFeedbackResource}}
        \cup {[PushConstantsItem(0, byteSize) EXCEPT !.resourceHandle = r] :
                 byteSize \in {0, 4}, r \in {NULL, PlainBuffer}}
        \cup {BindingSetItem(type, 0, 0, NULL) : type \in {"None", "Count"}}

SingleItems == ConstantBufferItems \cup BufferViewItems \cup TextureItems \cup OtherItems

DescriptorTable == <<"DescriptorTable", "table">>

\* the layout that declares the location of the item and nothing else
LayoutOfItem(item) ==
    <<"BindingLayout",
      [visibility |-> ShaderTypes, registerSpace |-> 0,
       registerSpaceIsDescriptorSet |-> FALSE,
       bindings |-> <<[type |-> item.type, slot |-> item.slot,
                       size |-> IF item.type = "PushConstants"
                                THEN item.range.byteSize ELSE 1]>>]>>

WriteDescriptorTable ==
    /\ pc = "idle"
    /\ \E item \in SingleItems, supported \in BOOLEAN, result \in BOOLEAN :
          \E r \in {writeDescriptorTable(DescriptorTable, item, supported, result)} :
              Call("writeDescriptorTable",
                   [descriptorTable |-> DescriptorTable, item |-> item], r)

CreateBindingSetOfOneItem ==
    /\ pc = "idle"
    /\ \E item \in SingleItems, supported \in BOOLEAN, result \in BackendHandles :
          \E layout \in {LayoutOfItem(item)}, desc \in {[bindings |-> <<item>>]} :
              \E r \in {createBindingSet(desc, layout, supported, result)} :
                  Call("createBindingSet", [desc |-> desc, layout |-> layout], r)

NextItems == WriteDescriptorTable \/ CreateBindingSetOfOneItem \/ Return

SpecItems == Init /\ [][NextItems]_vars

(***************************************************************************)
(* executeCommandLists                                                     *)
(***************************************************************************)
CommandQueues == {"Graphics", "Compute", "Copy"}

\* the states of the command list a CommandListWrapper wraps: being recorded, or
\* closed and ready to be executed
CommandListStates == {"Recording", "Executable"}

\* a command list of the wrapped device
BackendCommandList(queueType) == <<"CommandList", [queueType |-> queueType]>>

\* the CommandListWrapper createCommandList builds around commandList, in a state
CommandListWrapper(commandList, state) ==
    <<"CommandListWrapper", [underlying |-> commandList, state |-> state]>>

\* ICommandList::getDesc().queueType: a wrapper answers with the descriptor of the
\* list it wraps
getQueueType(commandList) ==
    IF commandList[1] = "CommandListWrapper"
    THEN commandList[2].underlying[2].queueType
    ELSE commandList[2].queueType

\* CommandListWrapper::requireExecuteState: true for a list in the executable state;
\* for any other list an error is reported and the answer is false
requireExecuteState(wrapper) ==
    IF wrapper[2].state = "Executable"
    THEN [ok |-> TRUE, msgs |-> <<>>]
    ELSE [ok |-> FALSE, msgs |-> <<Error("the command list is not in the executable state")>>]

\* the entry handed on when every test is left out
CheckCommandList_Unchecked(commandList, i, executionQueue) ==
    [ok |-> TRUE, msgs |-> <<>>,
     unwrapped |-> IF commandList # NULL /\ commandList[1] = "CommandListWrapper"
                   THEN commandList[2].underlying ELSE commandList]

\* the body of the loop of executeCommandLists for pCommandLists[i] (i counted from
\* 0): whether the entry may be executed, the message if it may not, and the
\* command list to hand on
CheckCommandList(commandList, i, executionQueue) ==
    IF commandList = NULL
    THEN [ok |-> FALSE, unwrapped |-> NULL,
          msgs |-> <<Error("executeCommandLists: pCommandLists[" \o ToString(i) \o "] is NULL")>>]
    ELSE IF getQueueType(commandList) # executionQueue
    THEN [ok |-> FALSE, unwrapped |-> NULL,
          msgs |-> <<Error("executeCommandLists: The command list [" \o ToString(i)
                           \o "] type is " \o getQueueType(commandList)
                           \o ", it cannot be executed on a " \o executionQueue \o " queue")>>]
    ELSE IF commandList[1] = "CommandListWrapper"
    THEN [ok |-> requireExecuteState(commandList).ok,
          unwrapped |-> commandList[2].underlying,
          msgs |-> requireExecuteState(commandList).msgs]
    ELSE [ok |-> TRUE, unwrapped |-> commandList, msgs |-> <<>>]

\* the loop of executeCommandLists from entry k of the array on (i = k - 1): it ends
\* at the first entry that may not be executed
RECURSIVE UnwrapCommandLists(_, _, _, _)
UnwrapCommandLists(lists, executionQueue, k, acc) ==
    LET checked == CheckCommandList(lists[k], k - 1, executionQueue)
    IN  IF k > Len(lists)
        THEN acc
        ELSE The({IF ~c.ok
                  THEN [acc EXCEPT !.failed = TRUE, !.msgs = c.msgs]
                  ELSE UnwrapCommandLists(lists, executionQueue, k + 1,
                                          [acc EXCEPT !.unwrapped = Append(@, c.unwrapped)]) :
                  c \in {checked}})

\* executeCommandLists(pCommandLists, numCommandLists, executionQueue), where the
\* wrapped device answers `result` to executeCommandLists; a non-null pCommandLists
\* is <<"array", the numCommandLists entries>>
executeCommandLists(a, result) ==
    LET loop == UnwrapCommandLists(a.pCommandLists[2], a.executionQueue, 1,
                                   [failed |-> FALSE, msgs |-> <<>>, unwrapped |-> <<>>])
    IN  IF a.numCommandLists = 0
        THEN Returned(0, <<>>, <<>>)
        ELSE IF a.pCommandLists = NULL
        THEN Returned(0, <<Error("executeCommandLists: pCommandLists is NULL")>>, <<>>)
        ELSE The({IF l.failed
                  THEN Returned(0, l.msgs, <<>>)
                  ELSE Returned(result, <<>>,
                                <<DevCall("executeCommandLists",
                                          [pCommandLists |-> l.unwrapped,
                                           numCommandLists |-> Len(l.unwrapped),
                                           executionQueue |-> a.executionQueue],
                                          result)>>) :
                  l \in {loop}})

\* bound on the number of command lists executed by one call
MaxCommandLists == 2

\* the command lists a caller may hold: null, lists of the wrapped device, and
\* wrappers in either state
CommandLists ==
    {NULL}
        \cup {BackendCommandList(q) : q \in CommandQueues}
        \cup {CommandListWrapper(BackendCommandList(q), s) :
                 q \in CommandQueues, s \in CommandListStates}

\* the arguments of a call: an array and its length, or a null pointer and any count
ExecuteArguments ==
    {[pCommandLists |-> <<"array", lists>>, numCommandLists |-> Len(lists),
      executionQueue |-> q] :
        lists \in UNION {[1..n -> CommandLists] : n \in 0..MaxCommandLists},
        q \in CommandQueues}
        \cup [pCommandLists : {NULL}, numCommandLists : 0..MaxCommandLists,
              executionQueue : CommandQueues]

\* the instance numbers the wrapped device answers executeCommandLists with
Instances == {0, 1}

ExecuteCommandLists ==
    /\ pc = "idle"
    /\ \E a \in ExecuteArguments, result \in Instances :
          \E r \in {executeCommandLists(a, result)} :
              Call("executeCommandLists", a, r)

NextExecute == ExecuteCommandLists \/ Return

SpecExecute == Init /\ [][NextExecute]_vars

(***************************************************************************)
(* createBindingLayout                                                     *)
(***************************************************************************)
\* largest number of volatile constant buffers in one binding layout
c_MaxVolatileConstantBuffersPerLayout == 6

\* the lines the loop of createBindingLayout writes for one item, with the size of
\* push constants not tested for being a multiple of 4
LayoutItemLines_AnyMultiple(item) ==
    IF item.type = "PushConstants"
    THEN (IF item.size = 0 THEN <<<<"Push constant block size cannot be 0">>>> ELSE <<>>)
         \o (IF item.size > c_MaxPushConstantSize
             THEN <<<<"Push constant block size cannot exceed the maximum">>>> ELSE <<>>)
    ELSE IF item.size > 1 /\ item.type = "VolatileConstantBuffer"
    THEN <<<<"Arrays of volatile constant buffers are not supported">>>>
    ELSE <<>>

\* the lines the loop of createBindingLayout writes to the error stream for one item
LayoutItemLines(item) ==
    IF item.type = "PushConstants"
    THEN (IF item.size = 0 THEN <<<<"Push constant block size cannot be 0">>>> ELSE <<>>)
         \o (IF item.size > c_MaxPushConstantSize
             THEN <<<<"Push constant block size cannot exceed the maximum">>>> ELSE <<>>)
         \o (IF item.size % 4 # 0
             THEN <<<<"Push constant block size must be a multiple of 4">>>> ELSE <<>>)
    ELSE IF item.size > 1 /\ item.type = "VolatileConstantBuffer"
    THEN <<<<"Arrays of volatile constant buffers are not supported">>>>
    ELSE <<>>

\* the loop of createBindingLayout over the items, from item i on
RECURSIVE LayoutLines(_, _, _)
LayoutLines(desc, i, lines) ==
    LET next == lines \o LayoutItemLines(desc.bindings[i])
    IN  IF i > Len(desc.bindings)
        THEN lines
        ELSE The({LayoutLines(desc, i + 1, n) : n \in {next}})

\* the three counters of the loop of createBindingLayout
noneItemCount(desc) ==
    Cardinality({i \in 1..Len(desc.bindings) : desc.bindings[i].type = "None"})

pushConstantCount(desc) ==
    Cardinality({i \in 1..Len(desc.bindings) : desc.bindings[i].type = "PushConstants"})

zeroSizeCount(desc) ==
    Cardinality({i \in 1..Len(desc.bindings) :
                    /\ desc.bindings[i].type # "PushConstants"
                    /\ desc.bindings[i].size = 0})

\* the register space is one the backend cannot use
RegisterSpaceUnsupported(desc) ==
    /\ ~(api = "D3D12" \/ (api = "VULKAN" /\ desc.registerSpaceIsDescriptorSet))
    /\ desc.registerSpace # 0

\* createBindingLayout that does not look at the duplicates of the summary
createBindingLayout_DuplicatesAllowed(desc, result) ==
    LET filled == FillBindingLayoutSummary(desc, EmptyFill(<<>>))
        lines == (IF desc.visibility = {}
                  THEN <<<<"Cannot create a binding layout with visibility = None">>>>
                  ELSE <<>>)
                 \o (IF filled.bindings.numVolatileCBs > c_MaxVolatileConstantBuffersPerLayout
                     THEN <<<<"Binding layout contains too many volatile CBs">>>>
                     ELSE <<>>)
                 \o LayoutLines(desc, 1, <<>>)
                 \o (IF noneItemCount(desc) # 0
                     THEN <<<<"Binding layout contains item(s) with type = None">>>>
                     ELSE <<>>)
                 \o (IF zeroSizeCount(desc) # 0
                     THEN <<<<"Binding layout contains item(s) with size = 0">>>>
                     ELSE <<>>)
                 \o (IF pushConstantCount(desc) > 1
                     THEN <<<<"Binding layout contains more than one push constant blocks">>>>
                     ELSE <<>>)
                 \o (IF RegisterSpaceUnsupported(desc)
                     THEN <<<<"Binding layout registerSpace is unsupported by the backend">>>>
                     ELSE <<>>)
        anyErrors == lines # <<>>
    IN  IF anyErrors
        THEN Returned(NULL, Append(filled.msgs, Error(lines)), <<GetGraphicsAPI>>)
        ELSE Returned(result, filled.msgs,
                      <<GetGraphicsAPI, DevCall("createBindingLayout", desc, result)>>)

\* createBindingLayout(desc), where the wrapped device answers `result` to
\* createBindingLayout; ShaderType::None is the empty set of stages
createBindingLayout(desc, result) ==
    LET filled == FillBindingLayoutSummary(desc, EmptyFill(<<>>))
        lines == (IF desc.visibility = {}
                  THEN <<<<"Cannot create a binding layout with visibility = None">>>>
                  ELSE <<>>)
                 \o (IF filled.duplicates # {}
                     THEN <<LocationsLine("Binding layout contains duplicate bindings",
                                          filled.duplicates)>>
                     ELSE <<>>)
                 \o (IF filled.bindings.numVolatileCBs > c_MaxVolatileConstantBuffersPerLayout
                     THEN <<<<"Binding layout contains too many volatile CBs">>>>
                     ELSE <<>>)
                 \o LayoutLines(desc, 1, <<>>)
                 \o (IF noneItemCount(desc) # 0
                     THEN <<<<"Binding layout contains item(s) with type = None">>>>
                     ELSE <<>>)
                 \o (IF zeroSizeCount(desc) # 0
                     THEN <<<<"Binding layout contains item(s) with size = 0">>>>
                     ELSE <<>>)
                 \o (IF pushConstantCount(desc) > 1
                     THEN <<<<"Binding layout contains more than one push constant blocks">>>>
                     ELSE <<>>)
                 \o (IF RegisterSpaceUnsupported(desc)
                     THEN <<<<"Binding layout registerSpace is unsupported by the backend">>>>
                     ELSE <<>>)
        anyErrors == lines # <<>>
    IN  IF anyErrors
        THEN Returned(NULL, Append(filled.msgs, Error(lines)), <<GetGraphicsAPI>>)
        ELSE Returned(result, filled.msgs,
                      <<GetGraphicsAPI, DevCall("createBindingLayout", desc, result)>>)

\* bound on the number of volatile constant buffers a layout starts with
MaxVolatileRun == 7

\* k volatile constant buffers in the slots from 10 on
VolatileRun(k) ==
    [i \in 1..k |-> [type |-> "VolatileConstantBuffer", slot |-> 9 + i, size |-> 1]]

\* the items a layout goes on with: textures, constant buffers, volatile constant
\* buffers and items of no type in slots 0 and 1, of size 0, 1 or 2, and push
\* constants of 0, 4, 6, 128 or 132 bytes
CreatedLayoutItems ==
    [type : {"Texture_SRV", "ConstantBuffer", "VolatileConstantBuffer", "None"},
     slot : 0..1, size : 0..2]
        \cup [type : {"PushConstants"}, slot : {0},
              size : {0, 4, 6, c_MaxPushConstantSize, c_MaxPushConstantSize + 4}]

CreatedLayoutDescs ==
    {[visibility |-> v, registerSpace |-> space, registerSpaceIsDescriptorSet |-> set,
      bindings |-> VolatileRun(k) \o items] :
        v \in {{}, ShaderTypes}, space \in 0..1, set \in BOOLEAN, k \in 0..MaxVolatileRun,
        items \in UNION {[1..n -> CreatedLayoutItems] : n \in 0..2}}

CreateBindingLayout ==
    /\ pc = "idle"
    /\ \E desc \in CreatedLayoutDescs, result \in BackendHandles :
          \E r \in {createBindingLayout(desc, result)} :
              Call("createBindingLayout", desc, r)

NextLayout == CreateBindingLayout \/ Return

SpecLayout == Init /\ [][NextLayout]_vars

(***************************************************************************)
(* Pipelines over layouts with push constants and descriptor-set spaces    *)
(***************************************************************************)
\* push constants of 4 bytes, of the largest size and of 4 bytes more, in slot 0
\* or 1
SpacePushConstants ==
    [type : {"PushConstants"}, slot : 0..1,
     size : {4, c_MaxPushConstantSize, c_MaxPushConstantSize + 4}]

\* the bindings of a layout: none, a texture, one block of push constants, or two
\* blocks of 4 bytes in slots 0 and 1
SpaceBindings ==
    {<<>>}
        \cup {<<item>> : item \in [type : {"Texture_SRV"}, slot : {0}, size : {1}]}
        \cup {<<item>> : item \in {p \in SpacePushConstants : p.slot = 0}}
        \cup {<<first, second>> :
                 first \in {p \in SpacePushConstants : p.slot = 0 /\ p.size = 4},
                 second \in {p \in SpacePushConstants : p.slot = 1 /\ p.size = 4}}

\* layouts in register space 0, 1 or c_MaxBindingLayouts, the space being a
\* descriptor set or not
SpaceLayouts ==
    {NULL, BindlessLayout}
        \cup {<<"BindingLayout", d>> :
                 d \in [visibility : {ShaderTypes},
                        registerSpace : {0, 1, c_MaxBindingLayouts},
                        registerSpaceIsDescriptorSet : BOOLEAN,
                        bindings : SpaceBindings]}

SpaceLayoutLists == UNION {[1..n -> SpaceLayouts] : n \in 0..MaxLayouts}

CreateComputePipelineOverSpaces ==
    /\ pc = "idle"
    /\ \E d \in [CS : {Shader("Compute")}, bindingLayouts : SpaceLayoutLists],
          fault \in Faults, result \in BackendHandles :
          LET a == [pipelineDesc |-> d]
          IN  \E r \in {createComputePipeline(a, fault, result)} :
                  Call("createComputePipeline", a, r)

NextSpaces == CreateComputePipelineOverSpaces \/ Return

SpecSpaces == Init /\ [][NextSpaces]_vars

(***************************************************************************)
(* Graphics and meshlet pipelines over render states and framebuffers      *)
(***************************************************************************)
\* render states with every combination of depth test, depth write, stencil, a
\* stencil write mask of 0 or 0xFF, and conservative rasterization
DepthStencilRenderStates ==
    [depthTestEnable : BOOLEAN, depthWriteEnable : BOOLEAN, stencilEnable : BOOLEAN,
     stencilWriteMask : {0, 255}, conservativeRasterEnable : BOOLEAN]

\* no framebuffer, or one whose depth attachment is valid or not, read-only or not
AnyFramebuffers ==
    {NULL} \cup {<<"Framebuffer", d>> :
                    d \in [depthAttachment : [valid : BOOLEAN, isReadOnly : BOOLEAN]]}

\* no layout, a null layout, or one layout with a texture in slot 3
RenderLayoutLists ==
    {<<>>, <<NULL>>,
     <<<<"BindingLayout",
         [visibility |-> ShaderTypes, registerSpace |-> 0,
          registerSpaceIsDescriptorSet |-> FALSE,
          bindings |-> <<[type |-> "Texture_SRV", slot |-> 3, size |-> 1]>>]>>>>}

CreateGraphicsPipelineOverRenderStates ==
    /\ pc = "idle"
    /\ \E d \in [VS : {Shader("Vertex"), Shader("Pixel")}, HS : {NULL}, DS : {NULL},
                 GS : {NULL}, PS : {NULL},
                 bindingLayouts : RenderLayoutLists, renderState : DepthStencilRenderStates],
          fb \in AnyFramebuffers, fault \in Faults, supported \in BOOLEAN,
          result \in BackendHandles :
          LET a == [pipelineDesc |-> d, fb |-> fb]
          IN  \E r \in {createGraphicsPipeline(a, fault, supported, result)} :
                  Call("createGraphicsPipeline", a, r)

CreateMeshletPipelineOverRenderStates ==
    /\ pc = "idle"
    /\ \E d \in [AS : {NULL}, MS : {Shader("Mesh"), Shader("Pixel")}, PS : {NULL},
                 bindingLayouts : RenderLayoutLists, renderState : DepthStencilRenderStates],
          fb \in AnyFramebuffers, fault \in Faults, supported \in BOOLEAN,
          result \in BackendHandles :
          LET a == [pipelineDesc |-> d, fb |-> fb]
          IN  \E r \in {createMeshletPipeline(a, fault, supported, result)} :
                  Call("createMeshletPipeline", a, r)

NextRender ==
    \/ CreateGraphicsPipelineOverRenderStates
    \/ CreateMeshletPipelineOverRenderStates
    \/ Return

SpecRender == Init /\ [][NextRender]_vars

(***************************************************************************)
(* createBindlessLayout                                                    *)
(***************************************************************************)
\* the resource types the switch of createBindlessLayout lets pass
BindlessItemTypes ==
    {"Texture_SRV", "TypedBuffer_SRV", "StructuredBuffer_SRV", "RawBuffer_SRV",
     "RayTracingAccelStruct", "ConstantBuffer", "Texture_UAV", "TypedBuffer_UAV",
     "StructuredBuffer_UAV", "RawBuffer_UAV"}

\* the switch of createBindlessLayout with samplers let pass
BindlessItemLines_WithSamplers(item) ==
    IF item.type \in BindlessItemTypes \cup {"Sampler"}
    THEN <<>>
    ELSE IF item.type = "VolatileConstantBuffer"
    THEN <<<<"Volatile CBs cannot be placed into a bindless layout", item.slot>>>>
    ELSE IF item.type = "PushConstants"
    THEN <<<<"Push constants cannot be placed into a bindless layout", item.slot>>>>
    ELSE <<<<"Invalid resource type", item.type, item.slot>>>>

\* the switch of createBindlessLayout: the line written to the error stream for one
\* item of registerSpaces
BindlessItemLines(item) ==
    IF item.type \in BindlessItemTypes
    THEN <<>>
    ELSE IF item.type = "VolatileConstantBuffer"
    THEN <<<<"Volatile CBs cannot be placed into a bindless layout", item.slot>>>>
    ELSE IF item.type = "Sampler"
    THEN <<<<"Bindless samplers are not implemented", item.slot>>>>
    ELSE IF item.type = "PushConstants"
    THEN <<<<"Push constants cannot be placed into a bindless layout", item.slot>>>>
    ELSE <<<<"Invalid resource type", item.type, item.slot>>>>

\* the loop of createBindlessLayout over registerSpaces, from item i on
RECURSIVE BindlessLines(_, _, _)
BindlessLines(desc, i, lines) ==
    LET next == lines \o BindlessItemLines(desc.registerSpaces[i])
    IN  IF i > Len(desc.registerSpaces)
        THEN lines
        ELSE The({BindlessLines(desc, i + 1, n) : n \in {next}})

\* createBindlessLayout(desc), where the wrapped device answers `result` to
\* createBindlessLayout; ShaderType::None is the empty set of stages
createBindlessLayout(desc, result) ==
    LET lines == (IF desc.visibility = {}
                  THEN <<<<"Cannot create a bindless layout with visibility = None">>>>
                  ELSE <<>>)
                 \o (IF Len(desc.registerSpaces) = 0
                     THEN <<<<"Bindless layout has no register spaces assigned">>>>
                     ELSE <<>>)
                 \o (IF desc.maxCapacity = 0
                     THEN <<<<"Bindless layout has maxCapacity = 0">>>>
                     ELSE <<>>)
                 \o BindlessLines(desc, 1, <<>>)
        anyErrors == lines # <<>>
    IN  IF anyErrors
        THEN Returned(NULL, <<Error(lines)>>, <<>>)
        ELSE Returned(result, <<>>, <<DevCall("createBindlessLayout", desc, result)>>)

\* bound on the number of items of registerSpaces
MaxBindlessItems == 2

\* descriptors of bindless layouts: visible to no stage or to every stage, a
\* capacity of 0, 1 or 1024, and items of every resource type in slot 3
BindlessLayoutDescs ==
    [visibility : {{}, ShaderTypes},
     maxCapacity : {0, 1, 1024},
     registerSpaces : UNION {[1..n -> [type : ResourceTypes, slot : {3}]] :
                                n \in 0..MaxBindlessItems}]

CreateBindlessLayout ==
    /\ pc = "idle"
    /\ \E desc \in BindlessLayoutDescs, result \in BackendHandles :
          \E r \in {createBindlessLayout(desc, result)} :
              Call("createBindlessLayout", desc, r)

NextBindless == CreateBindlessLayout \/ Return

SpecBindless == Init /\ [][NextBindless]_vars

(***************************************************************************)
(* getClusterOperationSizeInfo                                             *)
(***************************************************************************)
\* the limits of rt::cluster
kMaxGeometryIndex == 16777215

kClasMaxTriangles == 256

kClasMaxVertices == 256

\* the values of rt::cluster::OperationMode and rt::cluster::OperationType
OperationModes == {"ImplicitDestinations", "ExplicitDestinations", "GetSizes"}

OperationTypes ==
    {"Move", "ClasBuild", "ClasBuildTemplates", "ClasInstantiateTemplates", "BlasBuild"}

\* the name of the operation type in the messages: kOperationTypeStrings or Unknown
operationTypeString(type) == IF type \in OperationTypes THEN type ELSE "Unknown"

\* the vertex formats validateClusterOperationParams accepts
ValidVertexFormats ==
    {"RGBA32_FLOAT", "RGB32_FLOAT", "RG32_FLOAT", "RGBA16_FLOAT", "RG16_FLOAT",
     "RGBA16_SNORM", "RG16_SNORM", "RGBA8_SNORM", "RG8_SNORM", "RGBA16_UNORM",
     "RG16_UNORM", "RGBA8_UNORM", "RG8_UNORM", "R10G10B10A2_UNORM"}

\* the CLAS fields examined for ClasBuild only
validateClasParams_BuildOnly(type) == type = "ClasBuild"

\* the second switch of validateClusterOperationParams: the operation types whose
\* CLAS fields are examined
validateClasParams(type) ==
    type \in {"ClasBuild", "ClasBuildTemplates", "ClasInstantiateTemplates"}

\* the messages of validateClusterOperationParams about the CLAS fields, in order
ClasMessages(clas, operationType) ==
    LET Said(failed, text) ==
            IF failed
            THEN <<Error("cluster::OperationParams " \o operationType \o text)>>
            ELSE <<>>
    IN  Said(clas.vertexFormat \notin ValidVertexFormats,
             " does not have a valid vertex format")
        \o Said(clas.maxGeometryIndex > kMaxGeometryIndex, " has a maxGeometryIndex over the limit")
        \o Said(clas.minPositionTruncateBitCount > 32, " minPositionTruncateBitCount over 32")
        \o Said(clas.maxTriangleCount > kClasMaxTriangles, " maxTriangleCount over the limit")
        \o Said(clas.maxVertexCount > kClasMaxVertices, " maxVertexCount over the limit")
        \o Said(clas.maxTriangleCount > clas.maxTotalTriangleCount,
                " maxTriangleCount over maxTotalTriangleCount")
        \o Said(clas.maxVertexCount > clas.maxTotalVertexCount,
                " maxVertexCount over maxTotalVertexCount")
        \o Said(clas.maxUniqueGeometryCount > clas.maxTriangleCount,
                " maxUniqueGeometryCount over maxTriangleCount")

\* validateClusterOperationParams(params): isValid and the messages
validateClusterOperationParams(params) ==
    LET operationType == operationTypeString(params.type)
        modeMessages ==
            IF params.mode \in OperationModes
            THEN <<>>
            ELSE <<Error("cluster::OperationParams " \o operationType
                         \o " unknown cluster::OperationMode")>>
        clasMessages ==
            IF validateClasParams(params.type)
            THEN ClasMessages(params.clas, operationType)
            ELSE <<>>
    IN  [ok |-> modeMessages \o clasMessages = <<>>, msgs |-> modeMessages \o clasMessages]

\* a value-initialised rt::cluster::OperationSizeInfo:
\* <<resultMaxSizeInBytes, scratchSizeInBytes>>
ZeroSizeInfo == <<"OperationSizeInfo", 0, 0>>

\* getClusterOperationSizeInfo(params), where the wrapped device answers `result`
getClusterOperationSizeInfo(params, result) ==
    LET v == validateClusterOperationParams(params)
    IN  IF ~v.ok
        THEN Returned(ZeroSizeInfo, v.msgs, <<>>)
        ELSE Returned(result, v.msgs,
                      <<DevCall("getClusterOperationSizeInfo", params, result)>>)

\* CLAS fields at and next to each limit
ClasParams ==
    [vertexFormat : {"RGB32_FLOAT", "R10G10B10A2_UNORM", "R32_FLOAT"},
     maxGeometryIndex : {kMaxGeometryIndex, kMaxGeometryIndex + 1},
     minPositionTruncateBitCount : {32, 33},
     maxTriangleCount : {0, 1, kClasMaxTriangles, kClasMaxTriangles + 1},
     maxVertexCount : {1, kClasMaxVertices, kClasMaxVertices + 1},
     maxTotalTriangleCount : {0, kClasMaxTriangles},
     maxTotalVertexCount : {0, kClasMaxVertices},
     maxUniqueGeometryCount : {0, 2}]

\* operation parameters: every operation type and every mode, and for each a value
\* that is none of the enumerators
GetClusterOperationSizeInfo ==
    /\ pc = "idle"
    /\ \E params \in [type : OperationTypes \cup {"Unknown"}, mode : OperationModes \cup {"Unknown"},
                      clas : ClasParams],
          result \in {ZeroSizeInfo, <<"OperationSizeInfo", 1024, 256>>} :
          \E r \in {getClusterOperationSizeInfo(params, result)} :
              Call("getClusterOperationSizeInfo", params, r)

NextCluster == GetClusterOperationSizeInfo \/ Return

SpecCluster == Init /\ [][NextCluster]_vars

(***************************************************************************)
(* createRayTracingPipeline, and the four kinds of pipeline together       *)
(***************************************************************************)
\* createRayTracingPipeline(desc): the descriptor goes to the wrapped device as it
\* is, a = [pipelineDesc]
createRayTracingPipeline(a, result) ==
    Returned(result, <<>>, <<DevCall("createRayTracingPipeline", a, result)>>)

\* the single-stage values of ShaderType of the ray tracing stages
RayTracingStages ==
    {"RayGeneration", "AnyHit", "ClosestHit", "Miss", "Intersection", "Callable"}

\* layouts seen by the ray generation stage only or by every ray tracing stage,
\* declaring a texture in slot 3 or 5 or a sampler in slot 3
RayTracingLayouts ==
    {<<"BindingLayout", d>> :
        d \in [visibility : {{"RayGeneration"}, RayTracingStages},
               registerSpace : {0},
               registerSpaceIsDescriptorSet : {FALSE},
               bindings : {<<item>> : item \in LayoutItems}]}

\* descriptors of ray tracing pipelines: no shader, a ray generation shader or a
\* pixel shader, without a local layout, and up to MaxLayouts global layouts
RayTracingPipelineDescs ==
    [shaders : {<<>>} \cup {<<[shader |-> sh, bindingLayout |-> NULL]>> :
                               sh \in {Shader("RayGeneration"), Shader("Pixel")}},
     globalBindingLayouts : UNION {[1..n -> RayTracingLayouts] : n \in 0..MaxLayouts}]

CreateRayTracingPipeline ==
    /\ pc = "idle"
    /\ \E d \in RayTracingPipelineDescs, result \in BackendHandles :
          LET a == [pipelineDesc |-> d]
          IN  \E r \in {createRayTracingPipeline(a, result)} :
                  Call("createRayTracingPipeline", a, r)

NextKinds ==
    \/ CreateGraphicsPipeline
    \/ CreateMeshletPipeline
    \/ CreateComputePipeline
    \/ CreateRayTracingPipeline
    \/ Return

SpecKinds == Init /\ [][NextKinds]_vars

(***************************************************************************)
(* getAccelStructMemoryRequirements, and the operations that are handed    *)
(* wrappers of the validation layer                                        *)
(***************************************************************************)
\* a value-initialised MemoryRequirements
NoMemoryRequirements == [size |-> U64Zero, alignment |-> U64Zero]

\* getAccelStructMemoryRequirements(as), where the wrapped device answers memReq
getAccelStructMemoryRequirements(as, memReq) ==
    IF as = NULL
    THEN Returned(NoMemoryRequirements,
                  <<Error("getAccelStructMemoryRequirements: as is NULL")>>, <<>>)
    ELSE Returned(memReq, <<>>,
                  <<DevCall("getAccelStructMemoryRequirements",
                            UnderlyingAccelStruct(as), memReq)>>)

GetAccelStructMemoryRequirements ==
    /\ pc = "idle"
    /\ \E as \in AccelStructObjects \cup {NULL}, memReq \in MemoryRequirements :
          \E r \in {getAccelStructMemoryRequirements(as, memReq)} :
              Call("getAccelStructMemoryRequirements", [resource |-> as], r)

\* binding sets of two items for a layout that declares both: an acceleration
\* structure in slot 0, and an acceleration structure or a sampler in slot 1
CreateBindingSetOfTwoItems ==
    /\ pc = "idle"
    /\ \E first \in AccelStructResources,
          second \in {BindingSetItem("RayTracingAccelStruct", 1, 0, r) :
                         r \in AccelStructResources}
                     \cup {BindingSetItem("Sampler", 1, 0, SamplerResource)},
          result \in BackendHandles :
          LET desc == [bindings |->
                          <<BindingSetItem("RayTracingAccelStruct", 0, 0, first), second>>]
              layout == <<"BindingLayout",
                          [visibility |-> ShaderTypes, registerSpace |-> 0,
                           registerSpaceIsDescriptorSet |-> FALSE,
                           bindings |-> <<[type |-> "RayTracingAccelStruct", slot |-> 0,
                                           size |-> 1],
                                          [type |-> second.type, slot |-> 1, size |-> 1]>>]>>
          IN  \E r \in {createBindingSet(desc, layout, TRUE, result)} :
                  Call("createBindingSet", [desc |-> desc, layout |-> layout], r)

NextUnwrap ==
    \/ CreateBindingSetOfOneItem
    \/ CreateBindingSetOfTwoItems
    \/ WriteDescriptorTable
    \/ BindAccelStructMemory
    \/ GetAccelStructMemoryRequirements
    \/ ExecuteCommandLists
    \/ Return

SpecUnwrap == Init /\ [][NextUnwrap]_vars

(***************************************************************************)
(* The duplicate locations of a stage, for any location sets               *)
(***************************************************************************)
\* bound on the number of layouts whose location sets are compared
MaxSummaries == 3

\* three locations: slots 3 and 5 of class SRV and slot 3 of class Sampler
SomeLocations ==
    [type : {"SRV"}, registerSpace : {0}, slot : {3, 5}, arrayElement : {0}]
        \cup [type : {"Sampler"}, registerSpace : {0}, slot : {3}, arrayElement : {0}]

\* the per-layout summaries of a stage: any sets of the three locations, for two
\* layouts or more
LocationSummaries ==
    UNION {[1..n -> {[EmptyBindingSummary EXCEPT !.locations = l] :
                        l \in SUBSET SomeLocations}] : n \in 2..MaxSummaries}

\* the part of validatePipelineBindingLayouts that looks for locations declared by
\* more than one layout, run on bindingsPerLayout
FindDuplicateLocations ==
    /\ pc = "idle"
    /\ \E bindingsPerLayout \in LocationSummaries :
          \E duplicates \in {DuplicateLocations(bindingsPerLayout)} :
              Call("DuplicateLocations", bindingsPerLayout,
                   Returned(duplicates, <<>>, <<>>))

NextUnion == FindDuplicateLocations \/ Return

SpecUnion == Init /\ [][NextUnion]_vars

(***************************************************************************)
(* Pipelines over a layout created by createBindingLayout                  *)
(***************************************************************************)
\* descriptors of layouts of up to two items: textures, typed buffers and samplers
\* in slots 0 and 1, single or arrays of two, seen by no stage, one stage or all
LayoutDescsToCreate ==
    [visibility : {{}, {"Compute"}, {"Pixel"}, ShaderTypes},
     registerSpace : {0},
     registerSpaceIsDescriptorSet : {FALSE},
     bindings : UNION {[1..n -> [type : {"Texture_SRV", "TypedBuffer_SRV", "Sampler"},
                                 slot : 0..1, size : 1..2]] : n \in 0..2}]

\* createBindingLayout on a wrapped device that answers null or a layout whose
\* getDesc() answers the descriptor it was created from
CreateBindingLayoutOnDevice ==
    /\ pc = "idle"
    /\ \E desc \in LayoutDescsToCreate :
          \E result \in {NULL, <<"BindingLayout", desc>>} :
              \E r \in {createBindingLayout(desc, result)} :
                  Call("createBindingLayout", desc, r)

\* the caller puts the layout createBindingLayout has just returned into a compute
\* pipeline, once or twice
CreateComputePipelineOverCreatedLayout ==
    /\ pc = "done"
    /\ op = "createBindingLayout"
    /\ ret # NULL
    /\ \E layouts \in {<<ret>>, <<ret, ret>>}, fault \in Faults, result \in BackendHandles :
          LET a == [pipelineDesc |-> [CS |-> Shader("Compute"), bindingLayouts |-> layouts]]
          IN  \E r \in {createComputePipeline(a, fault, result)} :
                  Call("createComputePipeline", a, r)

\* the caller puts the layout createBindingLayout has just returned into a graphics
\* pipeline with a vertex shader and a pixel shader
CreateGraphicsPipelineOverCreatedLayout ==
    /\ pc = "done"
    /\ op = "createBindingLayout"
    /\ ret # NULL
    /\ \E layouts \in {<<ret>>, <<ret, ret>>}, renderState \in RenderStates,
          fb \in DepthFramebuffers, fault \in Faults, result \in BackendHandles :
          LET a == [pipelineDesc |->
                       [VS |-> Shader("Vertex"), HS |-> NULL, DS |-> NULL, GS |-> NULL,
                        PS |-> Shader("Pixel"), bindingLayouts |-> layouts,
                        renderState |-> renderState],
                    fb |-> fb]
          IN  \E r \in {createGraphicsPipeline(a, fault, TRUE, result)} :
                  Call("createGraphicsPipeline", a, r)

NextCreated ==
    \/ CreateBindingLayoutOnDevice
    \/ CreateComputePipelineOverCreatedLayout
    \/ CreateGraphicsPipelineOverCreatedLayout
    \/ Return

SpecCreated == Init /\ [][NextCreated]_vars

(***************************************************************************)
(* Range and BindingSummary on their own                                   *)
(***************************************************************************)
\* bound on the number of slots added to a Range
MaxAdds == 3

\* bound on the number of items a summary is filled from
MaxSummaryItems == 3

\* the sequences of slots added to a Range
SlotSequences == UNION {[1..n -> 0..3] : n \in 0..MaxAdds}

\* range.add(slots[i]), ..., range.add(slots[Len(slots)]) on `range`
RECURSIVE AddSlots(_, _, _)
AddSlots(slots, i, range) ==
    IF i > Len(slots)
    THEN range
    ELSE AddSlots(slots, i + 1, Range_add(range, slots[i]))

\* two fresh Ranges, the slots added to each one after the other, and then empty()
\* and overlapsWith() asked of them
AddToRanges ==
    /\ pc = "idle"
    /\ \E slots \in SlotSequences, otherSlots \in SlotSequences :
          \E range \in {AddSlots(slots, 1, EmptyRange)},
             other \in {AddSlots(otherSlots, 1, EmptyRange)} :
              Call("Range", [slots |-> slots, otherSlots |-> otherSlots],
                   Returned([range |-> range, other |-> other,
                             empty |-> Range_empty(range),
                             otherEmpty |-> Range_empty(other),
                             overlapsWith |-> Range_overlapsWith(range, other),
                             otherOverlapsWith |-> Range_overlapsWith(other, range)],
                            <<>>, <<>>))

\* the items a summary is filled from: one of each resource class in slots 0 and 1,
\* single or arrays of two
SummaryItems ==
    [type : {"Texture_SRV", "Texture_UAV", "ConstantBuffer", "Sampler"},
     slot : 0..1, size : 1..2]

\* a fresh BindingSummary filled from a sequence of items
FillSummary ==
    /\ pc = "idle"
    /\ \E items \in UNION {[1..n -> SummaryItems] : n \in 0..MaxSummaryItems} :
          LET desc == [visibility |-> ShaderTypes, registerSpace |-> 0,
                       registerSpaceIsDescriptorSet |-> FALSE, bindings |-> items]
          IN  \E filled \in {FillBindingLayoutSummary(desc, EmptyFill(<<>>))} :
                  Call("FillBindingLayoutSummary", desc,
                       Returned(filled, filled.msgs, <<>>))

NextSummary == AddToRanges \/ FillSummary \/ Return

SpecSummary == Init /\ [][NextSummary]_vars

(***************************************************************************)
(* Claims about every decorator operation                                  *)
(***************************************************************************)
\* the decorator operations that return bool
BoolOps == {"bindTextureMemory", "bindBufferMemory", "bindAccelStructMemory"}

\* the call returned the failure value of its operation: false or a null handle
FailedReturn == IF op \in BoolOps THEN ret = FALSE ELSE ret = NULL

\* the call returned failure after a decorator check reported the request
ValidationFailed == pc = "done" /\ FailedReturn /\ msgs # <<>>

\* the value returned is r, or a decorator wrapper around r
IsResultOrWrapperOf(r) ==
    \/ ret = r
    \/ ret[1] = "AccelStructWrapper" /\ ret[2].underlying = r

\* C1: in every call that returns failure because a decorator check rejected the
\* request, the wrapped device's corresponding method was invoked zero times.
C1_RejectedCallForwardsNothing ==
    ValidationFailed => Forwards(devLog, op) = {}

\* C2: in every call in which all of the decorator's checks pass, the wrapped
\* device's corresponding method is invoked exactly once and the decorator returns
\* the wrapped device's result (wrapped for an acceleration structure).
C2_AcceptedCallForwardsOnce ==
    (pc \in {"done", "crashed"} /\ msgs = <<>>) =>
        /\ pc = "done"
        /\ Cardinality(Forwards(devLog, op)) = 1
        /\ \A i \in Forwards(devLog, op) : IsResultOrWrapperOf(devLog[i][3])

\* C3: in every call that fails validation the message callback is invoked exactly
\* once, however many rules the request violates.
C3_OneMessagePerFailedCall ==
    ValidationFailed => Len(msgs) = 1

(***************************************************************************)
(* Claims about createTexture                                              *)
(***************************************************************************)
\* the elements of a sequence
Elems(s) == {s[i] : i \in 1..Len(s)}

\* a createTexture call has returned
TextureCall == pc = "done" /\ op = "createTexture"

\* the call returned a null handle and createTexture of the wrapped device was not called
TextureRejected == ret = NULL /\ Forwards(devLog, "createTexture") = {}

\* the call made exactly one createTexture call on the wrapped device, with the
\* descriptor it was given, and returned what that call returned
TextureForwarded ==
    /\ Cardinality(Forwards(devLog, "createTexture")) = 1
    /\ devLog[Len(devLog)] = DevCall("createTexture", args, ret)

AllExtentsNonzero(d) ==
    d.width # 0 /\ d.height # 0 /\ d.depth # 0 /\ d.arraySize # 0 /\ d.mipLevels # 0

\* the rules on virtual textures and on keepInitialState are met in this call
ResidencyAndStateRulesMet ==
    /\ args.isVirtual => DevCall("queryFeatureSupport", "VirtualResources", TRUE) \in Elems(devLog)
    /\ ~(args.keepInitialState /\ args.initialState = "Unknown")

\* C5: a texture descriptor with width, height, depth, arraySize or mipLevels equal
\* to 0 makes createTexture return a null handle without any call on the wrapped
\* device, neither createTexture nor a capability query, whatever the other fields.
C5_ZeroExtentRejectedWithoutDeviceCall ==
    (TextureCall /\ ~AllExtentsNonzero(args)) => (ret = NULL /\ devLog = <<>>)

\* C5 witness: a virtual descriptor whose only zero extent is mipLevels was rejected
\* and the capability query the virtual flag would cause was not made
C5_Witness ==
    /\ TextureCall
    /\ args.dimension = "Texture2D" /\ args.isVirtual
    /\ args.mipLevels = 0
    /\ args.width # 0 /\ args.height = 1 /\ args.depth = 1 /\ args.arraySize = 1
    /\ args.sampleCount = 1
    /\ ret = NULL /\ devLog = <<>> /\ Len(msgs) = 1

\* C6: with all extents nonzero, createTexture fails when arraySize # 1 for a plain
\* dimension, when arraySize # 6 for TextureCube and when arraySize is no multiple
\* of 6 for TextureCubeArray; an otherwise valid TextureCubeArray with arraySize 12
\* is forwarded; the array dimensions accept every nonzero arraySize.
C6_ArraySizeRule ==
    (TextureCall /\ AllExtentsNonzero(args)) =>
        /\ (args.dimension \in {"Texture1D", "Texture2D", "Texture2DMS", "Texture3D"}
            /\ args.arraySize # 1) => TextureRejected
        /\ (args.dimension = "TextureCube" /\ args.arraySize # 6) => TextureRejected
        /\ (args.dimension = "TextureCubeArray" /\ args.arraySize % 6 # 0) => TextureRejected
        /\ (args.dimension = "TextureCubeArray" /\ args.arraySize = 12
            /\ args.depth = 1 /\ args.sampleCount = 1 /\ ResidencyAndStateRulesMet)
           => TextureForwarded
        /\ (args.dimension \in {"Texture1DArray", "Texture2DArray"}
            /\ (args.dimension = "Texture1DArray" => args.height = 1)
            /\ args.depth = 1 /\ args.sampleCount = 1 /\ ResidencyAndStateRulesMet)
           => TextureForwarded
        /\ (args.dimension = "Texture2DMSArray"
            /\ args.depth = 1 /\ args.sampleCount \in {2, 4, 8} /\ ~args.isUAV
            /\ ResidencyAndStateRulesMet)
           => TextureForwarded

\* C6 witness: a TextureCubeArray of 12 slices was forwarded to the wrapped device
C6_Witness ==
    /\ TextureCall
    /\ args.dimension = "TextureCubeArray" /\ args.arraySize = 12
    /\ TextureForwarded /\ ret = BackendHandle /\ msgs = <<>>

\* C7: for Texture2DMS and Texture2DMSArray the sample-count check passes exactly
\* when sampleCount is 2, 4 or 8, and createTexture fails for every sampleCount when
\* isUAV is set; for every other dimension createTexture fails unless sampleCount = 1.
C7_SampleCountRule ==
    (TextureCall /\ AllExtentsNonzero(args) /\ args.dimension \in KnownDimensions) =>
        IF args.dimension \in {"Texture2DMS", "Texture2DMSArray"}
        THEN /\ (Error("sampleCount must be equal to 2, 4 or 8") \in Elems(msgs))
                    <=> (args.sampleCount \notin {2, 4, 8})
             /\ (args.sampleCount \notin {2, 4, 8}) => TextureRejected
             /\ args.isUAV => TextureRejected
             /\ (args.sampleCount \in {2, 4, 8} /\ ~args.isUAV /\ args.depth = 1
                 /\ (args.dimension = "Texture2DMS" => args.arraySize = 1)
                 /\ ResidencyAndStateRulesMet) => TextureForwarded
        ELSE /\ (args.sampleCount # 1) => TextureRejected
             /\ (Error("sampleCount must be equal to 1") \in Elems(msgs))
                    <=> (args.sampleCount # 1)

\* C7 witness: a Texture2DMS descriptor whose only fault is sampleCount = 3 was
\* rejected with the sample-count message
C7_Witness ==
    /\ TextureCall
    /\ args.dimension = "Texture2DMS" /\ args.sampleCount = 3 /\ ~args.isUAV
    /\ args.arraySize = 1 /\ args.depth = 1 /\ AllExtentsNonzero(args)
    /\ ~args.isVirtual /\ ~args.keepInitialState
    /\ TextureRejected
    /\ msgs = <<Error("sampleCount must be equal to 2, 4 or 8")>>

(***************************************************************************)
(* Claims about createBuffer                                               *)
(***************************************************************************)
BufferCall == pc = "done" /\ op = "createBuffer"

\* the call made exactly one createBuffer call on the wrapped device, with the
\* descriptor it was given, and returned what that call returned
BufferForwarded ==
    /\ Cardinality(Forwards(devLog, "createBuffer")) = 1
    /\ devLog[Len(devLog)] = DevCall("createBuffer", args, ret)

BufferRejected == ret = NULL /\ Forwards(devLog, "createBuffer") = {}

\* C8: a volatile buffer descriptor with isVertexBuffer set makes createBuffer fail;
\* createBuffer forwards a volatile descriptor exactly when isConstantBuffer is set,
\* maxVersions # 0, cpuAccess = None, none of the vertex, index, indirect-args, UAV,
\* accel-struct-input, accel-struct-storage, shader-binding-table and virtual flags
\* is set, and the keepInitialState rule holds; otherwise it returns a null handle.
C8_VolatileBufferRule ==
    (BufferCall /\ args.isVolatile) =>
        /\ args.isVertexBuffer => BufferRejected
        /\ BufferForwarded <=>
              /\ args.isConstantBuffer
              /\ args.maxVersions # 0
              /\ args.cpuAccess = "None"
              /\ ~args.isVertexBuffer /\ ~args.isIndexBuffer /\ ~args.isDrawIndirectArgs
              /\ ~args.canHaveUAVs /\ ~args.isAccelStructBuildInput
              /\ ~args.isAccelStructStorage /\ ~args.isShaderBindingTable
              /\ ~args.isVirtual
              /\ ~(args.keepInitialState /\ args.initialState = "Unknown")
        /\ BufferForwarded \/ BufferRejected

\* C8 witness: a volatile constant buffer with maxVersions = 1, cpuAccess = None and
\* no other usage flag was forwarded and the wrapped device's handle returned
C8_Witness ==
    /\ BufferCall
    /\ args.isVolatile /\ args.isConstantBuffer /\ ~args.isVertexBuffer
    /\ args.maxVersions = 1 /\ args.cpuAccess = "None"
    /\ BufferForwarded /\ ret = BackendHandle /\ msgs = <<>>

(***************************************************************************)
(* Claims about the memory binds                                           *)
(***************************************************************************)
\* a bind call has returned having called the bind method of the wrapped device
BindForwarded == pc = "done" /\ op \in BoolOps /\ Forwards(devLog, op) # {}

\* the memory requirements the wrapped device reported in this call
ReportedRequirements == devLog[1][3]

\* offset + size <= capacity over the integers
TrueSumFits(offset, size, capacity) ==
    /\ U64Sum(offset, size).carry = 0
    /\ ~U64Greater(U64Sum(offset, size).low, capacity)

\* C9: bindTextureMemory, bindBufferMemory and bindAccelStructMemory forward the
\* bind only if resource and heap are non-null, the resource was created virtual,
\* the offset is a multiple of the reported alignment (when nonzero) and the true
\* integer sum offset + reported size does not exceed the heap capacity, also when
\* that sum exceeds 2^64 - 1.
C9_BindForwardedOnlyIfItFits ==
    BindForwarded =>
        /\ args.resource # NULL
        /\ args.heap # NULL
        /\ UnderlyingAccelStruct(args.resource)[2].isVirtual
        /\ ReportedRequirements.alignment # U64Zero
              => U64Mod(args.offset, ReportedRequirements.alignment) = U64Zero
        /\ TrueSumFits(args.offset, ReportedRequirements.size, args.heap[2].capacity)

(***************************************************************************)
(* Claims about pipelines and descriptor tables                            *)
(***************************************************************************)
PipelineOps == {"createGraphicsPipeline", "createMeshletPipeline", "createComputePipeline"}

\* the caller supplied a null binding layout: in a slot of bindingLayouts of a
\* pipeline descriptor, or as the layout of createDescriptorTable
NullLayoutSupplied ==
    \/ op \in PipelineOps /\ NULL \in Elems(args.pipelineDesc.bindingLayouts)
    \/ op = "createDescriptorTable" /\ args.layout = NULL

\* C4: a null handle supplied by the caller is never dereferenced by the decorator
\* and the call returns failure instead: createGraphicsPipeline,
\* createComputePipeline and createMeshletPipeline with a null binding layout in any
\* slot (with or without bound shaders) return null after reporting, and
\* createDescriptorTable with a null layout returns null, without any access through
\* the null pointer.
C4_NullLayoutNeverDereferenced ==
    (pc \in {"done", "crashed"} /\ NullLayoutSupplied) =>
        /\ ~deref
        /\ pc = "done"
        /\ ret = NULL
        /\ msgs # <<>>

\* the stages of the slots of the pipeline descriptor that hold a shader
BoundSlots ==
    CASE op = "createGraphicsPipeline" ->
             {s \in Elems(g_GraphicsShaderStages) :
                 SelectGraphicsShaderStage(args.pipelineDesc, s) # NULL}
      [] op = "createMeshletPipeline" ->
             {s \in Elems(g_MeshletShaderStages) :
                 SelectMeshletShaderStage(args.pipelineDesc, s) # NULL}
      [] op = "createComputePipeline" ->
             IF args.pipelineDesc.CS = NULL THEN {} ELSE {"Compute"}

\* the shader in the slot of a stage
ShaderInSlot(s) ==
    CASE op = "createGraphicsPipeline" -> SelectGraphicsShaderStage(args.pipelineDesc, s)
      [] op = "createMeshletPipeline" -> SelectMeshletShaderStage(args.pipelineDesc, s)
      [] op = "createComputePipeline" -> args.pipelineDesc.CS

\* the stages bound in the pipeline: the types of its shaders
BoundStages == {ShaderInSlot(s)[2].shaderType : s \in BoundSlots}

\* a pipeline call returned after validating its binding layouts, none of them null:
\* a graphics or meshlet pipeline gets there with every shader in the slot of its
\* type, a compute pipeline with a shader
LayoutsValidated ==
    /\ pc = "done"
    /\ op \in PipelineOps
    /\ NULL \notin Elems(args.pipelineDesc.bindingLayouts)
    /\ IF op = "createComputePipeline"
       THEN args.pipelineDesc.CS # NULL
       ELSE \A s \in BoundSlots : ShaderInSlot(s)[2].shaderType = s

\* the resource class of a layout item's type
ClassOf(type) ==
    CASE type \in SRVTypes -> "SRV"
      [] type \in UAVTypes -> "UAV"
      [] type \in CBTypes -> "CB"
      [] type = "Sampler" -> "Sampler"

\* the locations a layout declares for a stage: none when the layout is not visible
\* to the stage or is bindless
DeclaredFor(layout, stage) ==
    IF layout[1] = "BindingLayout" /\ stage \in layout[2].visibility
    THEN UNION {{[type |-> ClassOf(item.type), registerSpace |-> layout[2].registerSpace,
                  slot |-> item.slot, arrayElement |-> e] : e \in 0..item.size - 1} :
                item \in Elems(layout[2].bindings)}
    ELSE {}

\* the locations two layouts of the pipeline both declare for the stage
SharedFor(stage) ==
    LET layouts == args.pipelineDesc.bindingLayouts
        pairs == {p \in (1..Len(layouts)) \X (1..Len(layouts)) : p[1] < p[2]}
    IN  UNION {DeclaredFor(layouts[p[1]], stage) \cap DeclaredFor(layouts[p[2]], stage) :
               p \in pairs}

\* the duplicate-binding errors reported in the call
DuplicateErrors ==
    {m \in Elems(msgs) :
        Len(m) = 3 /\ m[2] = "Same bindings defined by more than one layout in this pipeline:"}

\* the stages a duplicate-binding error names
StagesNamed == {f[1] : f \in UNION {Elems(m[3]) : m \in DuplicateErrors}}

\* C10: in pipeline binding-layout validation a stage bound in the pipeline is named
\* by a duplicate-binding error exactly when two of the layouts are both visible to
\* it and declare the same location (such as slot 3 of class SRV in register space
\* 0), and then validation returns false: the call returns null and is not
\* forwarded.  Layouts declaring disjoint slots (3 and 5) produce no duplicate
\* error, and a layout not visible to the stage contributes no locations for it.
C10_DuplicateAcrossLayoutsNamesStage ==
    LayoutsValidated =>
        /\ StagesNamed \subseteq BoundStages
        /\ \A stage \in BoundStages :
              /\ stage \in StagesNamed <=> SharedFor(stage) # {}
              /\ SharedFor(stage) # {} => ret = NULL /\ Forwards(devLog, op) = {}
              /\ \A m \in DuplicateErrors : \A f \in Elems(m[3]) :
                    f[1] = stage => f[2] = SharedFor(stage)

\* the location slot 3 of class SRV in register space 0
Slot3SRV == [type : {"SRV"}, registerSpace : {0}, slot : {3}, arrayElement : {0}]

\* C10 witness: a graphics pipeline with a vertex and a pixel shader and two layouts
\* visible to the pixel stage only, each declaring slot 3 of class SRV in register
\* space 0: the duplicate-binding error names the pixel stage and not the vertex
\* stage, and the call returned null without being forwarded
C10_Witness ==
    /\ LayoutsValidated
    /\ op = "createGraphicsPipeline"
    /\ BoundStages = {"Vertex", "Pixel"}
    /\ Len(args.pipelineDesc.bindingLayouts) = 2
    /\ \A i \in 1..2 :
          /\ args.pipelineDesc.bindingLayouts[i][1] = "BindingLayout"
          /\ args.pipelineDesc.bindingLayouts[i][2].visibility = {"Pixel"}
    /\ SharedFor("Pixel") = Slot3SRV
    /\ StagesNamed = {"Pixel"}
    /\ ret = NULL
    /\ Forwards(devLog, op) = {}

(***************************************************************************)
(* Claims about overlapping register ranges                                *)
(***************************************************************************)
\* the slots of a class that a layout declares for a stage
SlotsFor(layout, stage, class) ==
    {l.slot : l \in {d \in DeclaredFor(layout, stage) : d.type = class}}

\* the Ranges of two slot sets overlap: both are non-empty, and the largest slot of
\* the first is not below the smallest of the second, nor its smallest above the
\* largest of the second
RangesOverlap(first, second) ==
    /\ first # {}
    /\ second # {}
    /\ \E max1 \in first, min2 \in second :
          /\ \A s \in first : s <= max1
          /\ \A s \in second : s >= min2
          /\ max1 >= min2
    /\ \E min1 \in first, max2 \in second :
          /\ \A s \in first : s >= min1
          /\ \A s \in second : s <= max2
          /\ min1 <= max2

\* some pair of layouts i < j of the pipeline has overlapping Ranges of the class
\* for the stage
ClassOverlapsFor(stage, class) ==
    LET layouts == args.pipelineDesc.bindingLayouts
    IN  \E i \in 1..Len(layouts), j \in 1..Len(layouts) :
            /\ i < j
            /\ RangesOverlap(SlotsFor(layouts[i], stage, class),
                             SlotsFor(layouts[j], stage, class))

ResourceClasses == {"SRV", "Sampler", "UAV", "CB"}

\* the range-overlap errors reported in the call
OverlapErrors ==
    {m \in Elems(msgs) :
        Len(m) = 3 /\ m[2] = "Binding layouts have overlapping register ranges:"}

\* the <<stage, classes>> findings of the range-overlap errors
OverlapFindings == UNION {Elems(m[3]) : m \in OverlapErrors}

\* the classes a range-overlap error reports for a stage
ClassesReported(stage) ==
    UNION {Elems(f[2]) : f \in {g \in OverlapFindings : g[1] = stage}}

\* C11: range-overlap detection runs only when the backend is D3D11 and the stage
\* has no duplicate bindings; then a resource class (SRV, Sampler, UAV, CB) is
\* reported as overlapping for a stage exactly when some pair of layouts i < j have
\* non-empty Ranges of that class with max_i >= min_j and min_i <= max_j (slots 0
\* and 5 alone are not flagged, slots 0 and 5 together against slot 3 are).  On
\* other backends no range-overlap error is ever reported.
C11_RangeOverlapOnD3D11Only ==
    LayoutsValidated =>
        /\ api # "D3D11" => OverlapErrors = {}
        /\ \A f \in OverlapFindings : f[1] \in BoundStages
        /\ \A stage \in BoundStages :
              /\ SharedFor(stage) # {} => ClassesReported(stage) = {}
              /\ (api = "D3D11" /\ SharedFor(stage) = {}) =>
                    ClassesReported(stage) =
                        {class \in ResourceClasses : ClassOverlapsFor(stage, class)}

\* C11 witness: on D3D11 a compute pipeline with a layout declaring slots 0 and 5 and
\* a layout declaring slot 3, all of class SRV: no location is declared twice, class
\* SRV and only it is reported for the compute stage, and the call returned null
C11_Witness ==
    /\ LayoutsValidated
    /\ api = "D3D11"
    /\ op = "createComputePipeline"
    /\ Len(args.pipelineDesc.bindingLayouts) = 2
    /\ SlotsFor(args.pipelineDesc.bindingLayouts[1], "Compute", "SRV") = {0, 5}
    /\ SlotsFor(args.pipelineDesc.bindingLayouts[2], "Compute", "SRV") = {3}
    /\ SharedFor("Compute") = {}
    /\ ClassesReported("Compute") = {"SRV"}
    /\ ret = NULL
    /\ Forwards(devLog, op) = {}


(***************************************************************************)
(* Claims about createBindingSet                                           *)
(***************************************************************************)
\* a createBindingSet call for a layout that has a descriptor has returned
BindingSetCall ==
    /\ pc = "done"
    /\ op = "createBindingSet"
    /\ args.layout[1] = "BindingLayout"

\* the array elements a layout item declares: 0..N-1 for an item of size N; push
\* constants are one element, their size being a number of bytes
ElementsOf(item) == IF item.type = "PushConstants" THEN {0} ELSE 0..(item.size - 1)

\* the locations the layout of the call declares
LayoutLocations ==
    UNION {{[type |-> ClassOf(item.type), registerSpace |-> args.layout[2].registerSpace,
             slot |-> item.slot, arrayElement |-> e] : e \in ElementsOf(item)} :
           item \in Elems(args.layout[2].bindings)}

\* the location item i of the set binds, in the register space of the layout
BoundLocation(i) ==
    [type |-> ClassOf(args.desc.bindings[i].type),
     registerSpace |-> args.layout[2].registerSpace,
     slot |-> args.desc.bindings[i].slot,
     arrayElement |-> args.desc.bindings[i].arrayElement]

SetLocations == {BoundLocation(i) : i \in 1..Len(args.desc.bindings)}

\* two items of the set bind the same location
SetBindsTwice ==
    \E i, j \in 1..Len(args.desc.bindings) : i < j /\ BoundLocation(i) = BoundLocation(j)

\* the sets of locations the error message of the call prints under the heading
LocationsPrinted(heading) ==
    {line[2] : line \in {l \in Elems(msgs[Len(msgs)][2]) : l[1] = heading}}

\* C12: createBindingSet calls createBindingSet of the wrapped device only if the
\* locations the set binds are exactly the locations the layout declares and no
\* location is bound twice; when the set binds a strict subset of the declared
\* locations the call returns null without forwarding, its message lists exactly
\* the declared locations that are not bound, and it lists no location as bound but
\* not declared
C12_SetLocationsMatchLayout ==
    /\ (pc = "done" /\ op = "createBindingSet"
            /\ Forwards(devLog, "createBindingSet") # {})
        => /\ args.layout[1] = "BindingLayout"
           /\ SetLocations = LayoutLocations
           /\ ~SetBindsTwice
    /\ (BindingSetCall /\ SetLocations # LayoutLocations
            /\ SetLocations \subseteq LayoutLocations)
        => /\ ret = NULL
           /\ Forwards(devLog, "createBindingSet") = {}
           /\ msgs # <<>>
           /\ LocationsPrinted("Bindings declared in the layout are not present in the binding set")
                  = {LayoutLocations \ SetLocations}
           /\ LocationsPrinted("Bindings in the binding set are not declared in the layout")
                  = {}

\* a set that binds element 0 of an array of two was rejected
C12_Witness ==
    /\ BindingSetCall
    /\ SetLocations # {}
    /\ SetLocations # LayoutLocations
    /\ SetLocations \subseteq LayoutLocations
    /\ \E item \in Elems(args.layout[2].bindings) : item.type # "PushConstants" /\ item.size = 2
    /\ args.layout[2].registerSpace = 1
    /\ ret = NULL


(***************************************************************************)
(* Claims about single binding items                                       *)
(***************************************************************************)
\* a writeDescriptorTable call, or a createBindingSet call for a set of one item,
\* has returned
ItemCall ==
    /\ pc = "done"
    /\ \/ op = "writeDescriptorTable"
       \/ op = "createBindingSet" /\ Len(args.desc.bindings) = 1

\* the item the call validated
ItemOfCall == IF op = "writeDescriptorTable" THEN args.item ELSE args.desc.bindings[1]

\* the call failed: it returned false (null for a binding set) after an error, and
\* the operation was not forwarded
ItemFailed ==
    /\ ret = (IF op = "writeDescriptorTable" THEN FALSE ELSE NULL)
    /\ Forwards(devLog, op) = {}
    /\ msgs # <<>>
    /\ msgs[Len(msgs)][1] = "Error"

\* the item passed: nothing was reported and the operation was forwarded
ItemPassed ==
    /\ msgs = <<>>
    /\ Forwards(devLog, op) # {}

\* the item binds a buffer that was created as a constant buffer, volatile or not
BindsConstantBuffer(volatile) ==
    /\ ItemOfCall.resourceHandle # NULL
    /\ ItemOfCall.resourceHandle[1] = "Buffer"
    /\ ItemOfCall.resourceHandle[2].isConstantBuffer
    /\ ItemOfCall.resourceHandle[2].isVolatile = volatile

\* the range of the item is not the whole of the buffer it binds
PartialRange ==
    ~ /\ ItemOfCall.range.byteOffset = 0
      /\ ItemOfCall.range.byteSize \in {AllBytes, ItemOfCall.resourceHandle[2].byteSize}

\* the answers the wrapped device gave when asked for ConstantBufferRanges
RangeSupportAnswers ==
    {devLog[i][3] : i \in {j \in 1..Len(devLog) :
                              /\ devLog[j][1] = "queryFeatureSupport"
                              /\ devLog[j][2] = "ConstantBufferRanges"}}

\* C13: a ConstantBuffer item on a regular constant buffer fails with byteSize = 0,
\* fails with a byteOffset that is no multiple of the alignment constant, passes with
\* byteOffset = 0 and byteSize = the alignment constant unless the device said it
\* has no constant-buffer ranges, and with any partial range the device is asked and
\* the item fails when the answer is no; a VolatileConstantBuffer item on a buffer
\* fails whenever its range is not the whole buffer
C13_ConstantBufferRangeRules ==
    ItemCall =>
        /\ (ItemOfCall.type = "ConstantBuffer" /\ BindsConstantBuffer(FALSE)) =>
              /\ ItemOfCall.range.byteSize = 0 => ItemFailed
              /\ ItemOfCall.range.byteOffset % c_ConstantBufferOffsetSizeAlignment # 0
                    => ItemFailed
              /\ (/\ ItemOfCall.range.byteOffset = 0
                  /\ ItemOfCall.range.byteSize = c_ConstantBufferOffsetSizeAlignment
                  /\ FALSE \notin RangeSupportAnswers) => ItemPassed
              /\ PartialRange =>
                    /\ RangeSupportAnswers # {}
                    /\ FALSE \in RangeSupportAnswers => ItemFailed
        /\ (/\ ItemOfCall.type = "VolatileConstantBuffer"
            /\ ItemOfCall.resourceHandle # NULL
            /\ PartialRange) => ItemFailed

\* the first alignment unit of a constant buffer of two units was written to a
\* descriptor table on a device with constant-buffer ranges
C13_Witness ==
    /\ ItemCall
    /\ op = "writeDescriptorTable"
    /\ ItemOfCall.type = "ConstantBuffer"
    /\ BindsConstantBuffer(FALSE)
    /\ ItemOfCall.resourceHandle[2].byteSize = 2 * c_ConstantBufferOffsetSizeAlignment
    /\ ItemOfCall.range.byteOffset = 0
    /\ ItemOfCall.range.byteSize = c_ConstantBufferOffsetSizeAlignment
    /\ RangeSupportAnswers = {TRUE}
    /\ ItemPassed


\* the resource classes for which no null resource may be bound
NullRejectingTypes ==
    {"Texture_SRV", "Texture_UAV", "StructuredBuffer_SRV", "StructuredBuffer_UAV",
     "RawBuffer_SRV", "RawBuffer_UAV", "ConstantBuffer", "VolatileConstantBuffer",
     "Sampler", "RayTracingAccelStruct"}

\* C18: an item with a null resource handle whose class is a texture view, a
\* structured or raw buffer view, a constant buffer, a volatile constant buffer, a
\* sampler or an acceleration structure fails on every backend
C18_NullResourceRejected ==
    (ItemCall /\ ItemOfCall.resourceHandle = NULL /\ ItemOfCall.type \in NullRejectingTypes)
        => ItemFailed


(***************************************************************************)
(* Claims about createComputePipeline                                      *)
(***************************************************************************)
\* a createComputePipeline call without a compute shader was made
NullComputeShaderCall ==
    /\ op = "createComputePipeline"
    /\ args.pipelineDesc.CS = NULL

\* C14: a createComputePipeline call without a compute shader returns null with the
\* one error about the shader, and nothing of the validation of the binding layouts
\* has happened when it returns: no layout was accessed (not a null one either), no
\* message about a layout was reported, the table of register spaces was not
\* touched, and the wrapped device was not called
C14_NullComputeShaderFailsFirst ==
    NullComputeShaderCall =>
        /\ pc = "done"
        /\ ret = NULL
        /\ msgs = <<Error("createComputePipeline: CS = NULL")>>
        /\ devLog = <<>>
        /\ ~deref
        /\ tableIdx = {}

\* the call was made with a null layout and a layout that has a descriptor
C14_Witness ==
    /\ NullComputeShaderCall
    /\ pc = "done"
    /\ ret = NULL
    /\ \E i, j \in 1..Len(args.pipelineDesc.bindingLayouts) :
          /\ args.pipelineDesc.bindingLayouts[i] = NULL
          /\ args.pipelineDesc.bindingLayouts[j][1] = "BindingLayout"


(***************************************************************************)
(* Claims about unwrapResource                                             *)
(***************************************************************************)
\* the resource handle of the item the call handed to the wrapped device: what
\* unwrapResource made of the handle of the item
ForwardedResource ==
    IF op = "writeDescriptorTable"
    THEN devLog[Len(devLog)][2][2].resourceHandle
    ELSE devLog[Len(devLog)][2][1].bindings[1].resourceHandle

\* C15: the handle that reaches the wrapped device is the acceleration structure h
\* of the wrapped device when the item holds the wrapper createAccelStruct built
\* around h, is the handle of the item itself when that is no wrapper of an
\* acceleration structure, null when it is null, and unwrapping it once more does
\* not change it
C15_UnwrapRecoversBackendHandle ==
    (ItemCall /\ ItemPassed) =>
        /\ \A d \in AccelStructDescs :
              LET h == BackendAccelStruct(d)
                  wrapper == createAccelStruct(d, h).ret
              IN  (wrapper # NULL /\ ItemOfCall.resourceHandle = wrapper)
                      => ForwardedResource = h
        /\ ItemOfCall.resourceHandle[1] # "AccelStructWrapper"
              => ForwardedResource = ItemOfCall.resourceHandle
        /\ ItemOfCall.resourceHandle = NULL => ForwardedResource = NULL
        /\ unwrapResource(ForwardedResource) = ForwardedResource

\* the wrapper of a top-level acceleration structure was written to a descriptor
\* table and the acceleration structure of the wrapped device was handed on
C15_Witness ==
    /\ ItemCall
    /\ ItemPassed
    /\ op = "writeDescriptorTable"
    /\ ItemOfCall.type = "RayTracingAccelStruct"
    /\ ItemOfCall.resourceHandle[1] = "AccelStructWrapper"
    /\ ItemOfCall.resourceHandle[2].isTopLevel
    /\ ForwardedResource[1] = "AccelStruct"
    /\ ForwardedResource = ItemOfCall.resourceHandle[2].underlying


(***************************************************************************)
(* Claims about executeCommandLists                                        *)
(***************************************************************************)
\* the entries of the array of the call
ListsOfCall == args.pCommandLists[2]

\* entry i is a wrapper
Wrapped(i) == ListsOfCall[i][1] = "CommandListWrapper"

\* the queue type recorded for entry i
QueueTypeOf(i) ==
    IF Wrapped(i)
    THEN ListsOfCall[i][2].underlying[2].queueType
    ELSE ListsOfCall[i][2].queueType

\* the array is there, and every entry is a list of the execution queue that, if
\* wrapped, is executable
ExecutableArguments ==
    /\ args.pCommandLists # NULL
    /\ \A i \in 1..Len(ListsOfCall) :
          /\ ListsOfCall[i] # NULL
          /\ QueueTypeOf(i) = args.executionQueue
          /\ Wrapped(i) => ListsOfCall[i][2].state = "Executable"

\* the wrapped device was called once, with the entries in order and every wrapper
\* replaced by the list it wraps, and the call returned the device's answer
ExecutedOnce ==
    /\ Len(devLog) = 1
    /\ devLog[1][1] = "executeCommandLists"
    /\ devLog[1][2].executionQueue = args.executionQueue
    /\ devLog[1][2].numCommandLists = args.numCommandLists
    /\ Len(devLog[1][2].pCommandLists) = Len(ListsOfCall)
    /\ \A i \in 1..Len(ListsOfCall) :
          devLog[1][2].pCommandLists[i] =
              IF Wrapped(i) THEN ListsOfCall[i][2].underlying ELSE ListsOfCall[i]
    /\ ret = devLog[1][3]

\* C16: a call with numCommandLists > 0 calls executeCommandLists of the wrapped
\* device once, with the same entries in the same order and every wrapper replaced
\* by the list it wraps, exactly when the array is not null, no entry is null, every
\* entry has the queue type executionQueue and every wrapped entry is executable;
\* any other call with numCommandLists > 0 returns 0 after one error without calling
\* the wrapped device, and the process does not die; a call with numCommandLists = 0
\* returns 0 without a message and without calling the wrapped device
C16_ExecuteForwardsIffExecutable ==
    op = "executeCommandLists" =>
        /\ pc = "done"
        /\ args.numCommandLists > 0 =>
              /\ ExecutedOnce <=> ExecutableArguments
              /\ ~ExecutableArguments =>
                    /\ ret = 0
                    /\ devLog = <<>>
                    /\ Len(msgs) = 1
                    /\ msgs[1][1] = "Error"
        /\ args.numCommandLists = 0 =>
              /\ ret = 0
              /\ devLog = <<>>
              /\ msgs = <<>>

\* a wrapped executable list and a list of the wrapped device were executed together
C16_Witness ==
    /\ pc = "done"
    /\ op = "executeCommandLists"
    /\ args.numCommandLists = 2
    /\ ExecutableArguments
    /\ Wrapped(1)
    /\ ~Wrapped(2)
    /\ ExecutedOnce
    /\ ret = 1


(***************************************************************************)
(* Claims about createAccelStruct                                          *)
(***************************************************************************)
\* a createAccelStruct call has returned
AccelStructCall == pc = "done" /\ op = "createAccelStruct"

\* the descriptor asks for compaction of a top-level structure, or for both update
\* and compaction
IncompatibleFlags ==
    \/ args.isTopLevel /\ "AllowCompaction" \in args.buildFlags
    \/ "AllowUpdate" \in args.buildFlags /\ "AllowCompaction" \in args.buildFlags

\* what createAccelStruct of the wrapped device answered in the call
BackendAnswers == {devLog[i][3] : i \in Forwards(devLog, "createAccelStruct")}

\* a descriptor with incompatible flags gets null and one error
RejectsIncompatibleFlags ==
    (AccelStructCall /\ IncompatibleFlags) =>
        /\ ret = NULL
        /\ Len(msgs) = 1
        /\ msgs[1][1] = "Error"

\* the wrapper returned for any other descriptor carries the descriptor's fields and
\* the acceleration structure of the wrapped device
WrapsBackendAnswer ==
    (AccelStructCall /\ ~IncompatibleFlags /\ BackendAnswers # {NULL}) =>
        /\ ret[1] = "AccelStructWrapper"
        /\ BackendAnswers = {ret[2].underlying}
        /\ ret[2].isTopLevel = args.isTopLevel
        /\ ret[2].allowUpdate = ("AllowUpdate" \in args.buildFlags)
        /\ ret[2].allowCompaction = ("AllowCompaction" \in args.buildFlags)
        /\ ret[2].maxInstances = args.topLevelMaxInstances

\* no returned wrapper allows both update and compaction, or compaction of a
\* top-level structure
WrapperFlagsCompatible ==
    (AccelStructCall /\ ret # NULL) =>
        /\ ~(ret[2].allowUpdate /\ ret[2].allowCompaction)
        /\ ~(ret[2].isTopLevel /\ ret[2].allowCompaction)

\* C17: createAccelStruct returns null with one error for a top-level descriptor
\* with AllowCompaction and for a descriptor with AllowUpdate and AllowCompaction;
\* for any other descriptor for which the wrapped device returns a handle it returns
\* a wrapper with isTopLevel, allowUpdate, allowCompaction and maxInstances taken
\* from the descriptor around that handle; no returned wrapper has allowUpdate with
\* allowCompaction or isTopLevel with allowCompaction
C17_AccelStructFlagsAndWrapper ==
    /\ RejectsIncompatibleFlags
    /\ WrapsBackendAnswer
    /\ WrapperFlagsCompatible


(***************************************************************************)
(* Claims about createBindingLayout                                        *)
(***************************************************************************)
\* the items of the layout descriptor of the call
ItemsOfLayout == args.bindings

\* item i and item j of the descriptor declare a location in common
DeclareSameLocation(i, j) ==
    /\ ClassOf(ItemsOfLayout[i].type) = ClassOf(ItemsOfLayout[j].type)
    /\ ItemsOfLayout[i].slot = ItemsOfLayout[j].slot
    /\ ElementsOf(ItemsOfLayout[i]) \cap ElementsOf(ItemsOfLayout[j]) # {}

\* the push-constant items and the other items of the descriptor
PushConstantsOfLayout ==
    {i \in 1..Len(ItemsOfLayout) : ItemsOfLayout[i].type = "PushConstants"}

OtherItemsOfLayout == (1..Len(ItemsOfLayout)) \ PushConstantsOfLayout

\* the conditions under which a layout may be created
LayoutAcceptable ==
    /\ args.visibility # {}
    /\ \A i \in OtherItemsOfLayout :
          ItemsOfLayout[i].size # 0 /\ ItemsOfLayout[i].type # "None"
    /\ \A i, j \in 1..Len(ItemsOfLayout) : i < j => ~DeclareSameLocation(i, j)
    /\ Cardinality({i \in 1..Len(ItemsOfLayout) :
                       ItemsOfLayout[i].type = "VolatileConstantBuffer"})
           <= c_MaxVolatileConstantBuffersPerLayout
    /\ Cardinality(PushConstantsOfLayout) <= 1
    /\ \A i \in PushConstantsOfLayout :
          /\ ItemsOfLayout[i].size \in 1..c_MaxPushConstantSize
          /\ ItemsOfLayout[i].size % 4 = 0
    /\ \A i \in OtherItemsOfLayout :
          ItemsOfLayout[i].type = "VolatileConstantBuffer" => ItemsOfLayout[i].size <= 1
    /\ \/ args.registerSpace = 0
       \/ api = "D3D12"
       \/ api = "VULKAN" /\ args.registerSpaceIsDescriptorSet

\* C19: createBindingLayout calls createBindingLayout of the wrapped device exactly
\* when the visibility is not None, no location is declared twice, there are no more
\* volatile constant buffers than the per-layout maximum, there is at most one
\* push-constant item and each has a size in 1..c_MaxPushConstantSize that is a
\* multiple of 4, no other item has size 0 or type None, no volatile constant buffer
\* is an array, and the register space is 0 unless the backend is D3D12 or is Vulkan
\* with registerSpaceIsDescriptorSet; otherwise it returns null
C19_LayoutForwardedIffAcceptable ==
    (pc = "done" /\ op = "createBindingLayout") =>
        /\ Forwards(devLog, "createBindingLayout") # {} <=> LayoutAcceptable
        /\ Cardinality(Forwards(devLog, "createBindingLayout")) <= 1
        /\ ~LayoutAcceptable => ret = NULL

\* a layout of six volatile constant buffers and 128 bytes of push constants in
\* register space 1 was created on Vulkan
C19_Witness ==
    /\ pc = "done"
    /\ op = "createBindingLayout"
    /\ api = "VULKAN"
    /\ args.registerSpace = 1
    /\ Cardinality({i \in 1..Len(ItemsOfLayout) :
                       ItemsOfLayout[i].type = "VolatileConstantBuffer"})
           = c_MaxVolatileConstantBuffersPerLayout
    /\ \E i \in PushConstantsOfLayout : ItemsOfLayout[i].size = c_MaxPushConstantSize
    /\ LayoutAcceptable
    /\ Forwards(devLog, "createBindingLayout") # {}
    /\ ret = BackendHandle


(***************************************************************************)
(* Claims about push constants and register spaces of a pipeline           *)
(***************************************************************************)
\* the positions of the layouts of the pipeline that have a descriptor
DescribedLayouts ==
    {k \in 1..Len(args.pipelineDesc.bindingLayouts) :
        args.pipelineDesc.bindingLayouts[k][1] = "BindingLayout"}

DescOfLayout(k) == args.pipelineDesc.bindingLayouts[k][2]

\* the push-constant items of the pipeline: <<position of the layout, position of
\* the item in the layout>>
PushConstantsOfPipeline ==
    UNION {{<<k, i>> : i \in {j \in 1..Len(DescOfLayout(k).bindings) :
                                 DescOfLayout(k).bindings[j].type = "PushConstants"}} :
           k \in DescribedLayouts}

\* the sum of the sizes of a set of push-constant items
RECURSIVE TotalSize(_)
TotalSize(items) ==
    IF items = {}
    THEN 0
    ELSE LET item == CHOOSE p \in items : TRUE
         IN  DescOfLayout(item[1]).bindings[item[2]].size + TotalSize(items \ {item})

\* the layouts whose register space is a descriptor set
DescriptorSetLayouts ==
    {k \in DescribedLayouts : DescOfLayout(k).registerSpaceIsDescriptorSet}

\* one of the conditions on push constants and register spaces that make the
\* validation fail
LayoutRuleBroken ==
    \/ Cardinality(PushConstantsOfPipeline) > 1
    \/ TotalSize(PushConstantsOfPipeline) > c_MaxPushConstantSize
    \/ DescriptorSetLayouts # {} /\ DescriptorSetLayouts # DescribedLayouts
    \/ \E k, l \in DescriptorSetLayouts :
          k < l /\ DescOfLayout(k).registerSpace = DescOfLayout(l).registerSpace
    \/ \E k \in DescriptorSetLayouts : DescOfLayout(k).registerSpace >= c_MaxBindingLayouts

\* no layout is null, no two layouts declare the same location for the compute
\* stage, and no two have overlapping Ranges
LayoutsOtherwiseValid ==
    /\ \A k \in 1..Len(args.pipelineDesc.bindingLayouts) :
          args.pipelineDesc.bindingLayouts[k] # NULL
    /\ SharedFor("Compute") = {}
    /\ \A class \in ResourceClasses : ~ClassOverlapsFor("Compute", class)

\* C20: the validation of the binding layouts of a pipeline returns false (the
\* pipeline call returns null without calling the wrapped device) whenever the
\* layouts together declare more than one push-constant item, or push constants of
\* more than c_MaxPushConstantSize bytes in total, or some have
\* registerSpaceIsDescriptorSet and others not, or two with it use the same
\* register space, or one with it has a register space of c_MaxBindingLayouts or
\* more; it returns true (the pipeline call goes on to the wrapped device) when none
\* of these holds and no layout is null, duplicated or overlapping
C20_LayoutRulesDecideValidation ==
    (op = "createComputePipeline" /\ args.pipelineDesc.CS # NULL) =>
        /\ LayoutRuleBroken =>
              /\ pc = "done"
              /\ ret = NULL
              /\ Forwards(devLog, "createComputePipeline") = {}
        /\ (~LayoutRuleBroken /\ LayoutsOtherwiseValid) =>
              /\ pc = "done"
              /\ Forwards(devLog, "createComputePipeline") # {}

(***************************************************************************)
(* Claims about render states and framebuffers                             *)
(***************************************************************************)
\* a graphics or meshlet pipeline call ended
RenderStateCall ==
    /\ pc \in {"done", "crashed"}
    /\ op \in {"createGraphicsPipeline", "createMeshletPipeline"}

\* the call was forwarded to the wrapped device
RenderStateForwarded == Forwards(devLog, op) # {}

\* what the wrapped device answered in the call when asked whether it supports
\* conservative rasterization
ConservativeRasterAnswers ==
    {devLog[i][3] : i \in Forwards(devLog, "queryFeatureSupport")}

\* depth test or stencil is enabled
UsesDepthStencil ==
    args.pipelineDesc.renderState.depthTestEnable \/ args.pipelineDesc.renderState.stencilEnable

\* depth writes or stencil writes are requested
WritesDepthStencil ==
    \/ /\ args.pipelineDesc.renderState.depthTestEnable
       /\ args.pipelineDesc.renderState.depthWriteEnable
    \/ /\ args.pipelineDesc.renderState.stencilEnable
       /\ args.pipelineDesc.renderState.stencilWriteMask # 0

\* C21: for graphics and meshlet pipelines, creation is not forwarded when the
\* framebuffer is null, when depth test or stencil is enabled and the framebuffer
\* has no valid depth attachment, when depth writes or stencil writes are requested
\* and the depth attachment is read-only, or when conservative rasterization is
\* enabled and the device lacks the capability (a pipeline with conservative
\* rasterization is forwarded only after the device answered that it supports it);
\* when the device answers that it does not, the message callback receives one
\* message of severity Warning, no Error, and the call returns null.
C21_RenderStateRules ==
    RenderStateCall =>
        /\ RenderStateForwarded =>
              /\ args.fb # NULL
              /\ UsesDepthStencil => args.fb[2].depthAttachment.valid
              /\ WritesDepthStencil => ~args.fb[2].depthAttachment.isReadOnly
              /\ args.pipelineDesc.renderState.conservativeRasterEnable =>
                    ConservativeRasterAnswers = {TRUE}
        /\ FALSE \in ConservativeRasterAnswers =>
              /\ pc = "done"
              /\ ret = NULL
              /\ ~RenderStateForwarded
              /\ msgs = <<Warning("Conservative rasterization is not supported on this device")>>

\* C21 witness: a meshlet pipeline with stencil writes and conservative
\* rasterization over a framebuffer with a writable depth attachment, on a device
\* without conservative rasterization: one Warning, null returned, not forwarded
C21_Witness ==
    /\ RenderStateCall
    /\ op = "createMeshletPipeline"
    /\ WritesDepthStencil
    /\ args.pipelineDesc.renderState.conservativeRasterEnable
    /\ args.fb # NULL
    /\ args.fb[2].depthAttachment.valid
    /\ ~args.fb[2].depthAttachment.isReadOnly
    /\ ConservativeRasterAnswers = {FALSE}
    /\ msgs = <<Warning("Conservative rasterization is not supported on this device")>>
    /\ ret = NULL
    /\ ~RenderStateForwarded

(***************************************************************************)
(* Claims about createBindlessLayout                                       *)
(***************************************************************************)
BindlessCall == pc = "done" /\ op = "createBindlessLayout"

\* the shader resource views, unordered access views and constant buffer views of
\* buffers, textures and acceleration structures a bindless layout may hold
BindlessWhitelist ==
    {"Texture_SRV", "Texture_UAV",
     "TypedBuffer_SRV", "TypedBuffer_UAV",
     "StructuredBuffer_SRV", "StructuredBuffer_UAV",
     "RawBuffer_SRV", "RawBuffer_UAV",
     "ConstantBuffer", "RayTracingAccelStruct"}

\* the descriptor has a visibility, a register space, a capacity, and items of
\* whitelisted types only
BindlessAcceptable ==
    /\ args.visibility # {}
    /\ Len(args.registerSpaces) # 0
    /\ args.maxCapacity # 0
    /\ \A i \in 1..Len(args.registerSpaces) : args.registerSpaces[i].type \in BindlessWhitelist

\* C22: createBindlessLayout forwards to the backend if and only if visibility is not
\* None, registerSpaces is non-empty, maxCapacity is not 0 and every item's type is
\* in the whitelist of SRV, UAV and CBV types; an item of type
\* VolatileConstantBuffer, Sampler, PushConstants, None or of any other type outside
\* the whitelist makes the call return null with a single aggregated error.
C22_BindlessForwardedIffAcceptable ==
    BindlessCall =>
        /\ Forwards(devLog, "createBindlessLayout") # {} <=> BindlessAcceptable
        /\ BindlessAcceptable =>
              /\ devLog = <<DevCall("createBindlessLayout", args, ret)>>
              /\ msgs = <<>>
        /\ ~BindlessAcceptable =>
              /\ ret = NULL
              /\ devLog = <<>>
              /\ Len(msgs) = 1
              /\ msgs[1][1] = "Error"
        /\ \A i \in 1..Len(args.registerSpaces) :
              args.registerSpaces[i].type
                    \in {"VolatileConstantBuffer", "Sampler", "PushConstants", "None"}
                  => ret = NULL /\ Len(msgs) = 1

\* C22 witness: a bindless layout visible to every stage with a capacity and two
\* items, a texture and a sampler: the sampler makes the call return null with one
\* error of one line, and nothing is forwarded
C22_Witness ==
    /\ BindlessCall
    /\ args.visibility # {}
    /\ args.maxCapacity # 0
    /\ Len(args.registerSpaces) = 2
    /\ args.registerSpaces[1].type = "Texture_SRV"
    /\ args.registerSpaces[2].type = "Sampler"
    /\ ret = NULL
    /\ Len(msgs) = 1
    /\ Len(msgs[1][2]) = 1
    /\ devLog = <<>>

(***************************************************************************)
(* Claims about getClusterOperationSizeInfo                                *)
(***************************************************************************)
ClusterCall == pc = "done" /\ op = "getClusterOperationSizeInfo"

\* the three CLAS operation types
ClasOperationTypes == {"ClasBuild", "ClasBuildTemplates", "ClasInstantiateTemplates"}

\* the vertex formats of cluster geometry
ClasVertexFormats ==
    {"RGBA32_FLOAT", "RGB32_FLOAT", "RG32_FLOAT",
     "RGBA16_FLOAT", "RG16_FLOAT",
     "RGBA16_SNORM", "RG16_SNORM", "RGBA16_UNORM", "RG16_UNORM",
     "RGBA8_SNORM", "RG8_SNORM", "RGBA8_UNORM", "RG8_UNORM",
     "R10G10B10A2_UNORM"}

\* the CLAS fields of the call respect the fixed and the cross-field limits
ClasFieldsWithinLimits ==
    /\ args.clas.vertexFormat \in ClasVertexFormats
    /\ args.clas.maxGeometryIndex <= kMaxGeometryIndex
    /\ args.clas.minPositionTruncateBitCount <= 32
    /\ args.clas.maxTriangleCount <= kClasMaxTriangles
    /\ args.clas.maxVertexCount <= kClasMaxVertices
    /\ args.clas.maxTriangleCount <= args.clas.maxTotalTriangleCount
    /\ args.clas.maxVertexCount <= args.clas.maxTotalVertexCount
    /\ args.clas.maxUniqueGeometryCount <= args.clas.maxTriangleCount

ClusterParamsValid ==
    /\ args.mode \in {"ImplicitDestinations", "ExplicitDestinations", "GetSizes"}
    /\ args.type \in ClasOperationTypes => ClasFieldsWithinLimits

\* C23: getClusterOperationSizeInfo forwards to the backend if and only if the
\* operation mode is one of ImplicitDestinations, ExplicitDestinations and GetSizes
\* and, for the three CLAS operation types, the vertex format is whitelisted,
\* maxGeometryIndex <= kMaxGeometryIndex, minPositionTruncateBitCount <= 32,
\* maxTriangleCount <= kClasMaxTriangles, maxVertexCount <= kClasMaxVertices,
\* maxTriangleCount <= maxTotalTriangleCount, maxVertexCount <= maxTotalVertexCount
\* and maxUniqueGeometryCount <= maxTriangleCount; for Move and BlasBuild the CLAS
\* fields are not examined.  On failure it returns a zero-initialised size info.
C23_ClusterParamsDecideForwarding ==
    ClusterCall =>
        /\ Forwards(devLog, "getClusterOperationSizeInfo") # {} <=> ClusterParamsValid
        /\ ClusterParamsValid =>
              /\ devLog = <<DevCall("getClusterOperationSizeInfo", args, ret)>>
              /\ msgs = <<>>
        /\ ~ClusterParamsValid =>
              /\ ret = ZeroSizeInfo
              /\ devLog = <<>>
              /\ msgs # <<>>
        /\ args.type \in {"Move", "BlasBuild"} => Len(msgs) <= 1

\* C23 witness: a BlasBuild whose CLAS fields break the limits is forwarded and
\* returns what the wrapped device answered
C23_Witness ==
    /\ ClusterCall
    /\ args.type = "BlasBuild"
    /\ ~ClasFieldsWithinLimits
    /\ args.clas.maxTriangleCount > args.clas.maxTotalTriangleCount
    /\ ClusterParamsValid
    /\ ret # ZeroSizeInfo
    /\ devLog = <<DevCall("getClusterOperationSizeInfo", args, ret)>>

\* C23 second case: a ClasBuildTemplates within every limit but with more triangles
\* than the total budget returns the zero size info, unforwarded
C23_WitnessRejected ==
    /\ ClusterCall
    /\ args.type = "ClasBuildTemplates"
    /\ args.clas.maxTriangleCount = 1
    /\ args.clas.maxTotalTriangleCount = 0
    /\ ret = ZeroSizeInfo
    /\ devLog = <<>>

(***************************************************************************)
(* Claims about every kind of pipeline                                     *)
(***************************************************************************)
PipelineKinds == PipelineOps \cup {"createRayTracingPipeline"}

\* a pipeline call of any kind that was forwarded to the wrapped device
PipelineForwarded ==
    /\ pc \in {"done", "crashed"}
    /\ op \in PipelineKinds
    /\ Forwards(devLog, op) # {}

\* the binding layouts of the pipeline descriptor
LayoutsOfPipeline ==
    IF op = "createRayTracingPipeline"
    THEN args.pipelineDesc.globalBindingLayouts
    ELSE args.pipelineDesc.bindingLayouts

\* the shaders of a ray tracing pipeline descriptor
RayTracingShaders ==
    {e.shader : e \in Elems(args.pipelineDesc.shaders)} \ {NULL}

\* every shader bound in the pipeline declares the stage of the slot it occupies; a
\* shader of a ray tracing pipeline declares a ray tracing stage
ShadersMatchSlots ==
    IF op = "createRayTracingPipeline"
    THEN \A sh \in RayTracingShaders : sh[2].shaderType \in RayTracingStages
    ELSE \A s \in BoundSlots : ShaderInSlot(s)[2].shaderType = s

\* the stages bound in the pipeline
StagesOfPipeline ==
    IF op = "createRayTracingPipeline"
    THEN {sh[2].shaderType : sh \in RayTracingShaders}
    ELSE BoundStages

\* the locations two layouts of the pipeline both declare for the stage
DeclaredTwiceFor(stage) ==
    LET layouts == LayoutsOfPipeline
        pairs == {p \in (1..Len(layouts)) \X (1..Len(layouts)) : p[1] < p[2]}
    IN  UNION {DeclaredFor(layouts[p[1]], stage) \cap DeclaredFor(layouts[p[2]], stage) :
               p \in pairs}

\* C24: for every kind of pipeline (createGraphicsPipeline, createComputePipeline,
\* createMeshletPipeline, createRayTracingPipeline) the call is forwarded to the
\* backend only after every bound shader's declared stage was found equal to the
\* slot it occupies and the validation of the pipeline's binding layouts returned
\* true: a forwarded call has reported no error, and a pipeline of any kind whose
\* layouts declare the same binding twice for a bound stage is never forwarded.
C24_EveryPipelineKindValidated ==
    PipelineForwarded =>
        /\ ShadersMatchSlots
        /\ \A stage \in StagesOfPipeline : DeclaredTwiceFor(stage) = {}
        /\ msgs = <<>>

(***************************************************************************)
(* Claims about wrappers and the wrapped device                            *)
(***************************************************************************)
\* the handle is an object of the validation layer around an object of the wrapped
\* device
IsWrapper(handle) == handle[1] \in {"AccelStructWrapper", "CommandListWrapper"}

\* the object of the wrapped device behind a handle
Underlying(handle) == IF IsWrapper(handle) THEN handle[2].underlying ELSE handle

\* the handles among the arguments of a call on the wrapped device
HandlesPassed(call) ==
    CASE call[1] = "createBindingSet" ->
             {item.resourceHandle : item \in Elems(call[2][1].bindings)} \cup {call[2][2]}
      [] call[1] = "writeDescriptorTable" -> {call[2][1], call[2][2].resourceHandle}
      [] call[1] = "bindAccelStructMemory" -> {call[2].resource, call[2].heap}
      [] call[1] = "getAccelStructMemoryRequirements" -> {call[2]}
      [] call[1] = "executeCommandLists" -> Elems(call[2].pCommandLists)
      [] OTHER -> {}

\* the call on the wrapped device carries the arguments of the decorator call with
\* every wrapper replaced by the object it wraps and nothing else changed
ArgumentsUnwrapped(call) ==
    CASE call[1] = "createBindingSet" ->
             /\ call[2][2] = args.layout
             /\ Len(call[2][1].bindings) = Len(args.desc.bindings)
             /\ \A i \in 1..Len(args.desc.bindings) :
                   call[2][1].bindings[i] =
                       [args.desc.bindings[i] EXCEPT !.resourceHandle = Underlying(@)]
      [] call[1] = "writeDescriptorTable" ->
             /\ call[2][1] = args.descriptorTable
             /\ call[2][2] = [args.item EXCEPT !.resourceHandle = Underlying(@)]
      [] call[1] = "bindAccelStructMemory" ->
             call[2] = [args EXCEPT !.resource = Underlying(@)]
      [] call[1] = "getAccelStructMemoryRequirements" ->
             call[2] = Underlying(args.resource)
      [] call[1] = "executeCommandLists" ->
             /\ call[2].executionQueue = args.executionQueue
             /\ call[2].pCommandLists =
                    [i \in 1..Len(args.pCommandLists[2]) |-> Underlying(args.pCommandLists[2][i])]
      [] OTHER -> TRUE

\* C25: no wrapper of the validation layer is ever passed as an argument to the
\* wrapped device: createBindingSet and writeDescriptorTable forward the descriptor
\* with the resource handle of every item that is an acceleration-structure wrapper
\* replaced by the object it wraps and every other field of every item unchanged,
\* bindAccelStructMemory and getAccelStructMemoryRequirements pass the wrapped
\* acceleration structure, and executeCommandLists passes the wrapped command lists.
C25_NoWrapperReachesDevice ==
    \A i \in 1..Len(devLog) :
        /\ \A handle \in HandlesPassed(devLog[i]) : ~IsWrapper(handle)
        /\ ArgumentsUnwrapped(devLog[i])

\* C25 witness: a binding set of two acceleration structures, both wrappers, was
\* forwarded with the two acceleration structures of the wrapped device in the items
C25_Witness ==
    /\ pc = "done"
    /\ op = "createBindingSet"
    /\ Len(args.desc.bindings) = 2
    /\ \A i \in 1..2 : IsWrapper(args.desc.bindings[i].resourceHandle)
    /\ Len(devLog) = 1
    /\ devLog[1][1] = "createBindingSet"
    /\ \A i \in 1..2 :
          /\ devLog[1][2][1].bindings[i].resourceHandle[1] = "AccelStruct"
          /\ devLog[1][2][1].bindings[i].resourceHandle
                = args.desc.bindings[i].resourceHandle[2].underlying

(***************************************************************************)
(* Claims about termination                                                *)
(***************************************************************************)
\* C26: every decorator call returns after finitely many steps provided every call
\* it makes on the wrapped device returns, and no decorator operation re-enters
\* itself, createSamplerFeedbackForNativeTexture on D3D12 included: a call is never
\* found nested in a call of the same operation, and never ends with the process
\* dead instead of with a return.
C26_CallsReturnWithoutReentry ==
    /\ depth <= 1
    /\ pc # "crashed"

(***************************************************************************)
(* Claims about the running union                                          *)
(***************************************************************************)
\* C27: for any number n >= 2 of layouts and any per-layout location sets
\* L_0..L_{n-1} of a stage, the duplicate set computed by the running union of
\* validatePipelineBindingLayouts (D := D union (U intersect L_k); U := U union L_k
\* for k = 1..n-1, from U = L_0, D = {}) equals the union over all pairs i < j of
\* L_i intersect L_j, so a duplicate is reported for the stage exactly when some two
\* layouts share a location.
C27_RunningUnionFindsEveryPair ==
    (pc = "done" /\ op = "DuplicateLocations") =>
        LET n == Len(args)
            pairs == {p \in (1..n) \X (1..n) : p[1] < p[2]}
            shared == UNION {args[p[1]].locations \cap args[p[2]].locations : p \in pairs}
        IN  /\ ret = shared
            /\ ret # {} <=> \E p \in pairs :
                               args[p[1]].locations \cap args[p[2]].locations # {}

\* C27 witness: three layouts, the first two without a common location, the third
\* sharing one location with the first and another with the second: both are found
C27_Witness ==
    /\ pc = "done"
    /\ op = "DuplicateLocations"
    /\ Len(args) = 3
    /\ args[1].locations \cap args[2].locations = {}
    /\ Cardinality(args[1].locations \cap args[3].locations) = 1
    /\ Cardinality(args[2].locations \cap args[3].locations) = 1
    /\ Cardinality(ret) = 2

(***************************************************************************)
(* Claims about the table of register spaces                               *)
(***************************************************************************)
\* the layouts of the pipeline whose register space is a descriptor set beyond the
\* table
LayoutsBeyondTable ==
    {k \in DescribedLayouts :
        /\ DescOfLayout(k).registerSpaceIsDescriptorSet
        /\ DescOfLayout(k).registerSpace >= c_MaxBindingLayouts}

\* C28: in validatePipelineBindingLayouts every read and write of the table
\* registerSpaceToLayoutIdx, of size c_MaxBindingLayouts, uses an index strictly
\* below c_MaxBindingLayouts, for every list of layouts; a layout with
\* registerSpaceIsDescriptorSet and a registerSpace of c_MaxBindingLayouts or more
\* only produces the error about the largest supported registerSpace: the call
\* returns null and the process goes on.
C28_TableIndicesInBounds ==
    (pc \in {"done", "crashed"} /\ op \in PipelineOps) =>
        /\ \A index \in tableIdx : index < c_MaxBindingLayouts
        /\ (NULL \notin Elems(args.pipelineDesc.bindingLayouts) /\ LayoutsBeyondTable # {}) =>
              /\ pc = "done"
              /\ ret = NULL

(***************************************************************************)
(* Claims about the assertion on created layouts                           *)
(***************************************************************************)
\* a pipeline call over layouts ended, returned or not
PipelineCallEnded == pc \in {"done", "crashed"} /\ op \in PipelineOps

\* the locations an item of a layout declares
LocationsOfItem(desc, i) ==
    {[type |-> ClassOf(desc.bindings[i].type), registerSpace |-> desc.registerSpace,
      slot |-> desc.bindings[i].slot, arrayElement |-> e] :
        e \in 0..desc.bindings[i].size - 1}

\* two items of the layout declare a location in common
DeclaresLocationTwice(desc) ==
    \E i, j \in 1..Len(desc.bindings) :
        i < j /\ LocationsOfItem(desc, i) \cap LocationsOfItem(desc, j) # {}

\* C29: the assertion in validatePipelineBindingLayouts never fails for layouts
\* created through the decorator: for every binding-layout descriptor
\* createBindingLayout accepted (forwarded), recomputing its summary with
\* FillBindingLayoutSummary in a later pipeline validation, for any stage the layout
\* is visible to, yields an empty set of duplicates, and the process does not die.
C29_AssertionHoldsForCreatedLayouts ==
    PipelineCallEnded =>
        /\ pc = "done"
        /\ \A k \in DescribedLayouts :
              /\ FillBindingLayoutSummary(DescOfLayout(k), EmptyFill(<<>>)).duplicates = {}
              /\ ~DeclaresLocationTwice(DescOfLayout(k))

\* C29 witness: a layout of a texture array in slots 0 of elements 0 and 1 and a
\* typed buffer in slot 1, visible to the pixel stage, was created and then
\* summarised for the pixel stage of a graphics pipeline, which was forwarded
C29_Witness ==
    /\ PipelineCallEnded
    /\ op = "createGraphicsPipeline"
    /\ Len(args.pipelineDesc.bindingLayouts) = 1
    /\ DescOfLayout(1).visibility = {"Pixel"}
    /\ Len(DescOfLayout(1).bindings) = 2
    /\ DescOfLayout(1).bindings[1] = [type |-> "Texture_SRV", slot |-> 0, size |-> 2]
    /\ DescOfLayout(1).bindings[2] = [type |-> "TypedBuffer_SRV", slot |-> 1, size |-> 1]
    /\ pc = "done"
    /\ Forwards(devLog, "createGraphicsPipeline") # {}

(***************************************************************************)
(* Claims about Range and BindingSummary                                   *)
(***************************************************************************)
\* the smallest and the largest of a non-empty set of numbers
Smallest(S) == CHOOSE x \in S : \A y \in S : x <= y

Largest(S) == CHOOSE x \in S : \A y \in S : x >= y

\* the Range has the values the slots added to a fresh Range must leave
RangeOfSlots(range, isEmpty, slots) ==
    /\ isEmpty <=> slots = <<>>
    /\ slots # <<>> =>
          /\ range[1] = Smallest(Elems(slots))
          /\ range[2] = Largest(Elems(slots))

\* the <<item, array element>> pairs of the descriptor that present the location
Presentations(desc, location) ==
    {p \in (1..Len(desc.bindings)) \X (0..1) :
        /\ p[2] < desc.bindings[p[1]].size
        /\ location = [type |-> ClassOf(desc.bindings[p[1]].type),
                       registerSpace |-> desc.registerSpace,
                       slot |-> desc.bindings[p[1]].slot,
                       arrayElement |-> p[2]]}

\* the locations of register space 0 in slots 0 and 1
SummaryLocations ==
    [type : ResourceClasses, registerSpace : {0}, slot : 0..1, arrayElement : 0..1]

\* C30: after any sequence of Range.add(slot) calls on a fresh Range, empty() is true
\* exactly when no slot was added, and otherwise min and max are the smallest and
\* the largest slot added; overlapsWith is symmetric, is false whenever either Range
\* is empty, and for two non-empty Ranges holds exactly when the closed intervals
\* [min, max] intersect.  In a BindingSummary filled from any item sequence a
\* location is among the duplicates exactly when it was presented at least twice,
\* and every duplicate is also in the location set.
C30_RangeAndSummaryInvariants ==
    /\ (pc = "done" /\ op = "Range") =>
          /\ RangeOfSlots(ret.range, ret.empty, args.slots)
          /\ RangeOfSlots(ret.other, ret.otherEmpty, args.otherSlots)
          /\ ret.overlapsWith = ret.otherOverlapsWith
          /\ (args.slots = <<>> \/ args.otherSlots = <<>>) => ~ret.overlapsWith
          /\ (args.slots # <<>> /\ args.otherSlots # <<>>) =>
                (ret.overlapsWith <=>
                    (ret.range[1]..ret.range[2]) \cap (ret.other[1]..ret.other[2]) # {})
    /\ (pc = "done" /\ op = "FillBindingLayoutSummary") =>
          /\ ret.duplicates \subseteq ret.bindings.locations
          /\ ret.bindings.locations \subseteq SummaryLocations
          /\ \A location \in SummaryLocations :
                /\ location \in ret.bindings.locations
                      <=> Presentations(args, location) # {}
                /\ location \in ret.duplicates
                      <=> Cardinality(Presentations(args, location)) >= 2

\* C30 witness: slots 3 and 1 were added to one Range and slot 3 to another: the
\* first is [1, 3], the second [3, 3], and they overlap in slot 3
C30_Witness ==
    /\ pc = "done"
    /\ op = "Range"
    /\ args.slots = <<3, 1>>
    /\ args.otherSlots = <<3>>
    /\ ret.range = <<1, 3>>
    /\ ret.other = <<3, 3>>
    /\ ~ret.empty
    /\ ret.overlapsWith

\* a summary filled from a texture array of two in slot 0 and a texture in slot 0:
\* element 0 was presented twice and is the one duplicate
C30_SummaryWitness ==
    /\ pc = "done"
    /\ op = "FillBindingLayoutSummary"
    /\ args.bindings = <<[type |-> "Texture_SRV", slot |-> 0, size |-> 2],
                         [type |-> "Texture_SRV", slot |-> 0, size |-> 1]>>
    /\ ret.duplicates = {[type |-> "SRV", registerSpace |-> 0, slot |-> 0, arrayElement |-> 0]}
    /\ Cardinality(ret.bindings.locations) = 2

====
